---- MODULE Spec2Model ----
(***************************************************************************)
(* AmazonQA-Suite: the reporting engine (utils/enhanced_reporting.py), the *)
(* pytest fixture layer (tests/conftest.py), the browser utilities         *)
(* (utils/browser_config.py) and the DOM helpers (utils/test_helpers.py).  *)
(*                                                                         *)
(* Conventions.  Where a string or None is held, None is the string        *)
(* "None"; where a number or a document or None is held, None is Nil and   *)
(* a value x is Some(x).  Wall-clock readings (datetime.now()) are values  *)
(* of the variable now, which the action Tick advances.  Durations are     *)
(* whole seconds.  A Python float that is a quotient is kept exact as a    *)
(* record [num, den] (Rate).  The per-record                               *)
(* "timestamp" strings of results, metrics and screenshots are written     *)
(* once and never read by the code, and are left out of the records.       *)
(***************************************************************************)
EXTENDS Integers, Sequences, FiniteSets, TLC

None == "None"
Nil == <<>>
Some(x) == <<x>>
Val(o) == o[1]

-----------------------------------------------------------------------------
(* Bounds of the model *)

\* longest list of test results explored
MaxResults == 4
\* largest wall-clock reading
MaxClock == 2
\* longest screenshot list explored
MaxShots == 3
\* most tests collected in a run
MaxTests == 2
\* most windows open at once, and most windows the pages ever spawn
MaxHandles == 3
MaxSpawns == 6
\* longest selector list handed to advanced_element_finder
MaxSelectors == 3

-----------------------------------------------------------------------------
(* Input domains *)

Statuses == {"passed", "failed", "skipped"}
\* (status, duration) pairs handed to add_test_result: a passed and a failed
\* test that took time, a skipped one reported without a duration
ResultArgs == {<<"passed", Some(2)>>, <<"failed", Some(3)>>, <<"skipped", Nil>>}
\* screenshot files that may exist in screenshots/
Paths == {"screenshots/a.png", "screenshots/b.png"}

VARIABLES
    \* EnhancedReporter fields (enhanced_reporting.py:17-22)
    test_results, performance_metrics, screenshots, start_time, end_time,
    \* environment: wall clock, files of screenshots/, the two report files
    now, files, html_file, json_file,
    \* history: number of add_test_result calls made, per status
    calls,
    \* position of the report-rendering script of SpecSummary
    script,
    \* the pytest run: position in the run protocol, number of tests collected,
    \* index and facts of the running test, state of the session fixture
    pc, collected, cur, test, fixture,
    \* directories made, browsers alive (by launch attempt), the fixture's driver
    dirs, browsers, driver,
    \* history of the run: reporter calls in order, call-phase reports made,
    \* whether each report write was attempted / failed
    log, call_reports, attempted, io_failed,
    \* the browser's windows: open handles in creation order, the next fresh
    \* handle, whether the loaded page carries the window.open override, the
    \* position inside navigate_single_tab, and the last return value of
    \* enforce_single_tab_mode ("none" before any call), set while no other
    \* step has happened since that return
    handles, next_handle, hooked, nav_pc, enforce_ret,
    \* advanced_element_finder: the selectors' outcomes on the page, the loop
    \* index, the position ("loop", "returned", "raised"), the value
    \* returned, and the selectors waited on, in order
    page, f_i, f_pc, f_result, f_waits,
    \* smart_price_extractor: the list being built, the number of product
    \* elements finished, the selector index inside
    \* extract_price_from_element, what it returned for the last finished
    \* product (Nil before any), and whether some candidate text of the
    \* selectors tried on that product parses to a value inside / outside the
    \* accepted range
    prices_found, products_done, price_i, price_data, cand_in, cand_out,
    \* validate_price_accuracy_enhanced: the product records and the expected
    \* maximum price it is handed, and what it gave (Nil before the call)
    products_data, expected_max_price, validation_result, original_result,
    \* test_complete_workflow_basic_to_advanced: the position in the test
    \* ("phase1".."phase4", "passed", "failedN" for a failure in phase N), and
    \* the sizes of basic_products and products_data, the number of priced
    \* products and the interaction score, each 0 until its phase sets it
    wf_pc, basic_products, wf_products, products_with_prices, interaction_score,
    \* test_advanced_language_changing: the position ("convert" in the loop of
    \* line 2346, "analyze" before phase 4, "analyzed" after it), the languages
    \* picked for testing and the loop index, the records appended to
    \* language_tests by the verification and analysis steps, the counter of
    \* verified conversions, the markup last read (as the set of indicator
    \* strings occurring in it) and the language whose save it was read after
    \* (None when it was read for the analysis or not at all)
    lang_pc, languages_to_test, lang_i, language_tests, successful_conversions, page_source, verified_lang,
    \* browser options: an argument list in a caller's hands (each argument a
    \* sequence of characters), the number of arguments the caller added to it,
    \* what validate_no_headless_mode gave for it ("none" before the call and
    \* after a change of the list), and the argument lists webdriver.Chrome was
    \* called with
    chrome_options, opt_inserted, opt_ret, launched_with,
    \* run_tests.py: the position of main ("start"; "menu", "pause", "submenu",
    \* "error_pause": waiting in the input() of line 328, 352, 255/261/273/294,
    \* 359; "exited"), the first command-line argument (Nil when there is none),
    \* what the startup environment check found ("none" before it), the process
    \* exit status (Nil while running), the suites handed to subprocess.run in
    \* order, the return code of the last run that completed (Nil when none),
    \* the number of times show_menu ran, whether the goodbye line was printed,
    \* the input() a KeyboardInterrupt arrived in ("none" when none did), and
    \* the number of "[ERROR] Error:" lines printed by line 358
    cli_pc, argv, env_result, exit_status, runs, returncode, menus_shown, goodbye, interrupted, errors_printed,
    \* smart_product_finder: the position in the call ("off", "loop", "returned",
    \* "raised"), its max_products argument, the number of matches of each
    \* selector pattern tried so far (0: the wait timed out), the list returned
    sp_pc, max_products, sp_counts, sp_result,
    \* create_visible_chrome_driver step by step: the position in the call ("off",
    \* "full", "minimal", "final", "returned", "raised"), one record per launch
    \* attempt made, the driver returned, the webdriver cache directories on disk
    cd_pc, cd_log, cd_driver, cd_cache,
    \* the timing of pytest_runtest_makereport for one test: the phase ("off",
    \* "setup", "call", "teardown", "done"), the position in it ("idle", "running",
    \* "hook", "yielded"), the wall clock, the clock readings around the test
    \* body, the start_time of the hook call in progress, and the two readings
    \* the recorded duration was taken from
    tm_when, tm_pc, tm_clock, call_start, call_stop, hook_start, tm_measured,
    \* robust_element_click: the position in the call ("off", "loop", "returned"),
    \* max_attempts, one record per attempt made (what became of the native click
    \* and of the JavaScript click), and the value returned
    rc_pc, rc_max, rc_log, rc_ret,
    \* intelligent_popup_dismissal: the position in the call ("off", "loop",
    \* "returned"), the number of attempts allowed, one record per attempt made
    \* (popups dismissed and clicks tried in it), the running count, and the
    \* value returned
    pd_pc, pd_max, pd_log, dismissed_count, pd_ret,
    \* test_comprehensive_otp_login_simulation: the statement reached, the elements
    \* clicked so far, the text in the two input fields, the characters still to
    \* type, and the list of recorded steps
    otp_pc, otp_clicks, otp_fields, otp_pending, login_tests,
    \* clean_artifacts: the statement reached, the directories that exist, their
    \* entries, the paths outside them, the file system at the call, the position
    \* of the directory loop, the entries still to visit, the counter and the
    \* count printed
    cl_pc, cl_dirs, cl_tree, cl_other, cl_before, cl_dir, cl_todo, cleaned, cl_printed

reporterVars == <<test_results, performance_metrics, screenshots, start_time, end_time>>
envVars == <<now, files, html_file, json_file>>
runVars == <<pc, collected, cur, test, fixture, browsers, driver,
             log, call_reports, attempted, io_failed>>
tabVars == <<handles, next_handle, hooked, nav_pc, enforce_ret>>
finderVars == <<page, f_i, f_pc, f_result, f_waits>>
priceVars == <<prices_found, products_done, price_i, price_data, cand_in, cand_out>>
accVars == <<products_data, expected_max_price, validation_result, original_result>>
flowVars == <<wf_pc, basic_products, wf_products, products_with_prices, interaction_score>>
langVars == <<lang_pc, languages_to_test, lang_i, language_tests, successful_conversions, page_source, verified_lang>>
optVars == <<chrome_options, opt_inserted, opt_ret, launched_with>>
cliVars == <<cli_pc, argv, env_result, exit_status, runs, returncode, menus_shown, goodbye, interrupted, errors_printed>>
productVars == <<sp_pc, max_products, sp_counts, sp_result>>
ladderVars == <<cd_pc, cd_log, cd_driver, cd_cache>>
timingVars == <<tm_when, tm_pc, tm_clock, call_start, call_stop, hook_start, tm_measured>>
clickVars == <<rc_pc, rc_max, rc_log, rc_ret>>
popupVars == <<pd_pc, pd_max, pd_log, dismissed_count, pd_ret>>
otpVars == <<otp_pc, otp_clicks, otp_fields, otp_pending, login_tests>>
cleanVars == <<cl_pc, cl_dirs, cl_tree, cl_other, cl_before, cl_dir, cl_todo, cleaned, cl_printed>>
suiteVars == <<priceVars, accVars, flowVars, langVars, optVars, cliVars, productVars, ladderVars, timingVars, clickVars, popupVars, otpVars, cleanVars>>
helperVars == <<tabVars, finderVars, suiteVars>>
coreVars == <<reporterVars, envVars, dirs, calls, script, runVars, tabVars, finderVars>>
othersPrice == <<coreVars, accVars, flowVars, langVars, optVars, cliVars, productVars, ladderVars, timingVars, clickVars, popupVars, otpVars, cleanVars>>
othersAcc == <<coreVars, priceVars, flowVars, langVars, optVars, cliVars, productVars, ladderVars, timingVars, clickVars, popupVars, otpVars, cleanVars>>
othersFlow == <<coreVars, priceVars, accVars, langVars, optVars, cliVars, productVars, ladderVars, timingVars, clickVars, popupVars, otpVars, cleanVars>>
othersLang == <<coreVars, priceVars, accVars, flowVars, optVars, cliVars, productVars, ladderVars, timingVars, clickVars, popupVars, otpVars, cleanVars>>
othersOpt == <<coreVars, priceVars, accVars, flowVars, langVars, cliVars, productVars, ladderVars, timingVars, clickVars, popupVars, otpVars, cleanVars>>
othersCli == <<reporterVars, now, calls, script, runVars, tabVars, finderVars, priceVars, accVars, flowVars, langVars, optVars, productVars, ladderVars, timingVars, clickVars, popupVars, otpVars, cleanVars>>
othersProduct == <<coreVars, priceVars, accVars, flowVars, langVars, optVars, cliVars, ladderVars, timingVars, clickVars, popupVars, otpVars, cleanVars>>
othersLadder == <<coreVars, priceVars, accVars, flowVars, langVars, optVars, cliVars, productVars, timingVars, clickVars, popupVars, otpVars, cleanVars>>
othersTiming == <<coreVars, priceVars, accVars, flowVars, langVars, optVars, cliVars, productVars, ladderVars, clickVars, popupVars, otpVars, cleanVars>>
othersClick == <<coreVars, priceVars, accVars, flowVars, langVars, optVars, cliVars, productVars, ladderVars, timingVars, popupVars, otpVars, cleanVars>>
othersPopup == <<coreVars, priceVars, accVars, flowVars, langVars, optVars, cliVars, productVars, ladderVars, timingVars, clickVars, otpVars, cleanVars>>
othersOtp == <<coreVars, priceVars, accVars, flowVars, langVars, optVars, cliVars, productVars, ladderVars, timingVars, clickVars, popupVars, cleanVars>>
othersClean == <<coreVars, priceVars, accVars, flowVars, langVars, optVars, cliVars, productVars, ladderVars, timingVars, clickVars, popupVars, otpVars>>
vars == <<reporterVars, envVars, dirs, calls, script, runVars, helperVars>>

-----------------------------------------------------------------------------
(* EnhancedReporter: pure parts *)

\* an empty dict
EmptyDict == [k \in {} |-> None]

\* d[k] = v on a dict
DictPut(d, k, v) == [x \in DOMAIN d \cup {k} |-> IF x = k THEN v ELSE d[x]]

\* sum(1 for r in self.test_results if r["status"] == s)
RECURSIVE CountStatus(_, _)
CountStatus(rs, s) ==
    IF rs = <<>> THEN 0
    ELSE (IF Head(rs).status = s THEN 1 ELSE 0) + CountStatus(Tail(rs), s)

\* sum(r["duration"] for r in self.test_results)
RECURSIVE SumDuration(_)
SumDuration(rs) ==
    IF rs = <<>> THEN 0 ELSE Head(rs).duration + SumDuration(Tail(rs))

\* the float passed / total * 100, kept exact
Rate(passed, total) == [num |-> passed * 100, den |-> total]
\* the integer 0 of the "else 0" branches
ZeroRate == [num |-> 0, den |-> 1]

\* the result dict built by add_test_result; "duration or 0" maps None (and 0) to 0
NewResult(test_name, status, duration, error_message, screenshot_path) ==
    [test_name |-> test_name,
     status |-> status,
     duration |-> IF duration = Nil THEN 0 ELSE Val(duration),
     error_message |-> error_message,
     screenshot_path |-> screenshot_path]

\* os.path.exists(path) against the files of screenshots/
Exists(fs, path) == path \in fs

\* add_screenshot: the list after the call
ShotsAfterAdd(shots, fs, path, description) ==
    IF Exists(fs, path)
    THEN Append(shots, [path |-> path, description |-> description])
    ELSE shots

\* HtmlSummary with the success rate taken over the tests that ran (skipped
\* ones left out of the denominator)
HtmlSummaryOverRun(rs, st, et) ==
    LET passed_tests == CountStatus(rs, "passed")
        ran == Len(rs) - CountStatus(rs, "skipped")
    IN  [total_tests |-> Len(rs),
         passed |-> passed_tests,
         failed |-> CountStatus(rs, "failed"),
         skipped |-> CountStatus(rs, "skipped"),
         success_rate |-> IF ran > 0 THEN Rate(passed_tests, ran) ELSE ZeroRate,
         duration |-> IF st # Nil /\ et # Nil THEN Val(et) - Val(st) ELSE 0]

\* the summary numbers generate_enhanced_html_report computes (lines 66-76)
HtmlSummary(rs, st, et) ==
    LET total_tests == Len(rs)
        passed_tests == CountStatus(rs, "passed")
        failed_tests == CountStatus(rs, "failed")
        skipped_tests == CountStatus(rs, "skipped")
    IN  [total_tests |-> total_tests,
         passed |-> passed_tests,
         failed |-> failed_tests,
         skipped |-> skipped_tests,
         success_rate |-> IF total_tests > 0 THEN Rate(passed_tests, total_tests)
                          ELSE ZeroRate,
         duration |-> IF st # Nil /\ et # Nil THEN Val(et) - Val(st) ELSE 0]

\* the "session" and "summary" blocks of generate_json_report (lines 662-673)
JsonSession(st, et) ==
    [start_time |-> st,
     end_time |-> et,
     duration |-> IF st # Nil /\ et # Nil THEN Val(et) - Val(st) ELSE 0]

\* JsonSummary counting every result that did not fail as passed
JsonSummaryNotFailed(rs) ==
    [total_tests |-> Len(rs),
     passed |-> Len(rs) - CountStatus(rs, "failed"),
     failed |-> CountStatus(rs, "failed"),
     skipped |-> CountStatus(rs, "skipped"),
     success_rate |-> IF rs # <<>>
                      THEN Rate(Len(rs) - CountStatus(rs, "failed"), Len(rs))
                      ELSE ZeroRate]

JsonSummary(rs) ==
    [total_tests |-> Len(rs),
     passed |-> CountStatus(rs, "passed"),
     failed |-> CountStatus(rs, "failed"),
     skipped |-> CountStatus(rs, "skipped"),
     success_rate |-> IF rs # <<>> THEN Rate(CountStatus(rs, "passed"), Len(rs))
                      ELSE ZeroRate]

\* "{x:.1f}" of an exact quotient: tenths, rounded half up
Fmt1(r) == (r.num * 20 + r.den) \div (2 * r.den)

\* the test-result rows of the HTML report (lines 511-532)
HtmlRows(rs, fs) ==
    [i \in 1..Len(rs) |->
        [test_name |-> rs[i].test_name,
         status |-> rs[i].status,
         duration |-> rs[i].duration,
         error_html |-> rs[i].error_message # None,
         screenshot_html |-> rs[i].screenshot_path # None
                             /\ Exists(fs, rs[i].screenshot_path)]]

\* HtmlGallery without the os.path.exists test of line 568
HtmlGalleryUnchecked(shots, fs) ==
    [i \in 1..Len(shots) |-> shots[i].path]

\* the screenshot gallery of the HTML report (lines 557-579): the paths of
\* the cards written
HtmlGallery(shots, fs) ==
    SelectSeq([i \in 1..Len(shots) |-> shots[i].path], LAMBDA p : Exists(fs, p))

\* the document generate_enhanced_html_report writes
HtmlDocument(rs, pm, shots, st, et, fs) ==
    LET s == HtmlSummary(rs, st, et)
    IN  [success_rate |-> Fmt1(s.success_rate),
         total_tests |-> s.total_tests,
         passed |-> s.passed,
         failed |-> s.failed,
         skipped |-> s.skipped,
         total_duration |-> SumDuration(rs),
         session_duration |-> s.duration,
         rows |-> HtmlRows(rs, fs),
         metrics |-> pm,
         gallery |-> HtmlGallery(shots, fs)]

\* the document generate_json_report writes
JsonDocument(rs, pm, shots, st, et) ==
    [session |-> JsonSession(st, et),
     summary |-> JsonSummary(rs),
     test_results |-> rs,
     performance_metrics |-> pm,
     screenshots |-> shots]

-----------------------------------------------------------------------------
(* EnhancedReporter: the operations as actions *)

\* time passes
Tick ==
    /\ now < MaxClock
    /\ now' = now + 1
    /\ UNCHANGED <<reporterVars, files, html_file, json_file, calls, script, runVars, dirs>>
    /\ UNCHANGED helperVars

start_session ==
    /\ start_time' = Some(now)
    /\ UNCHANGED <<test_results, performance_metrics, screenshots, end_time>>

end_session ==
    /\ end_time' = Some(now)
    /\ UNCHANGED <<test_results, performance_metrics, screenshots, start_time>>

add_test_result(test_name, status, duration, error_message, screenshot_path) ==
    /\ test_results' = Append(test_results,
            NewResult(test_name, status, duration, error_message, screenshot_path))
    /\ calls' = [calls EXCEPT ![status] = @ + 1]
    /\ UNCHANGED <<performance_metrics, screenshots, start_time, end_time>>

add_performance_metric(metric_name, value, unit) ==
    /\ performance_metrics' =
            DictPut(performance_metrics, metric_name, [value |-> value, unit |-> unit])
    /\ UNCHANGED <<test_results, screenshots, start_time, end_time>>

add_screenshot(path, description) ==
    /\ screenshots' = ShotsAfterAdd(screenshots, files, path, description)
    /\ UNCHANGED <<test_results, performance_metrics, start_time, end_time>>

\* io_ok: whether open()/write of the report file succeeds; os.makedirs has
\* made reports/ by then
generate_enhanced_html_report(io_ok) ==
    /\ html_file' = IF io_ok
                    THEN Some(HtmlDocument(test_results, performance_metrics, screenshots,
                                           start_time, end_time, files))
                    ELSE html_file
    /\ dirs' = dirs \cup {"reports"}
    /\ UNCHANGED reporterVars

generate_json_report(io_ok) ==
    /\ json_file' = IF io_ok
                    THEN Some(JsonDocument(test_results, performance_metrics, screenshots,
                                           start_time, end_time))
                    ELSE json_file
    /\ dirs' = dirs \cup {"reports"}
    /\ UNCHANGED reporterVars

-----------------------------------------------------------------------------------------------------------------------------------------------------
(* SpecSummary: results and session times are recorded in any order, then    *)
(* the same in-memory session is fed to both generators                      *)

InitReporter ==
    /\ test_results = <<>>
    /\ performance_metrics = EmptyDict
    /\ screenshots = <<>>
    /\ start_time = Nil
    /\ end_time = Nil

InitEnv ==
    /\ now = 0
    /\ files = {}
    /\ html_file = Nil
    /\ json_file = Nil

\* no pytest run is in progress
InitNoRun ==
    /\ pc = "off"
    /\ collected = 0
    /\ cur = 0
    /\ test = Nil
    /\ fixture = "unset"
    /\ dirs = {}
    /\ browsers = {}
    /\ driver = Nil
    /\ log = <<>>
    /\ call_reports = 0
    /\ attempted = {}
    /\ io_failed = {}

\* one window, no helper call in progress
InitNoHelper ==
    /\ handles = <<1>>
    /\ next_handle = 2
    /\ hooked = FALSE
    /\ nav_pc = "idle"
    /\ enforce_ret = "none"
    /\ page = <<>>
    /\ f_i = 1
    /\ f_pc = "off"
    /\ f_result = Nil
    /\ f_waits = <<>>

InitCore ==
    /\ InitReporter
    /\ InitEnv
    /\ InitNoRun
    /\ InitNoHelper
    /\ calls = [s \in Statuses |-> 0]
    /\ script = "record"

\* smart_price_extractor is not running
InitNoPrices ==
    /\ prices_found = <<>>
    /\ products_done = 0
    /\ price_i = 0
    /\ price_data = Nil
    /\ cand_in = FALSE
    /\ cand_out = FALSE

\* validate_price_accuracy_enhanced is not called
InitNoAccuracy ==
    /\ products_data = <<>>
    /\ expected_max_price = 0
    /\ validation_result = Nil
    /\ original_result = Nil

\* the combined workflow test is not running
InitNoWorkflow ==
    /\ wf_pc = "off"
    /\ basic_products = 0
    /\ wf_products = 0
    /\ products_with_prices = 0
    /\ interaction_score = 0

\* the language test is not running
InitNoLanguage ==
    /\ lang_pc = "off"
    /\ languages_to_test = <<>>
    /\ lang_i = 1
    /\ language_tests = <<>>
    /\ successful_conversions = 0
    /\ page_source = {}
    /\ verified_lang = None

\* no options are built
InitNoOptions ==
    /\ chrome_options = <<>>
    /\ opt_inserted = 0
    /\ opt_ret = "none"
    /\ launched_with = {}

\* run_tests.py is not running
InitNoCli ==
    /\ cli_pc = "off"
    /\ argv = Nil
    /\ env_result = "none"
    /\ exit_status = Nil
    /\ runs = <<>>
    /\ returncode = Nil
    /\ menus_shown = 0
    /\ goodbye = FALSE
    /\ interrupted = "none"
    /\ errors_printed = 0

\* smart_product_finder is not running
InitNoProducts ==
    /\ sp_pc = "off"
    /\ max_products = 0
    /\ sp_counts = <<>>
    /\ sp_result = <<>>

\* create_visible_chrome_driver is not running step by step
InitNoLadder ==
    /\ cd_pc = "off"
    /\ cd_log = <<>>
    /\ cd_driver = Nil
    /\ cd_cache = {}

\* no test is being timed
InitNoTiming ==
    /\ tm_when = "off"
    /\ tm_pc = "idle"
    /\ tm_clock = 0
    /\ call_start = Nil
    /\ call_stop = Nil
    /\ hook_start = Nil
    /\ tm_measured = Nil

\* robust_element_click is not running
InitNoClick ==
    /\ rc_pc = "off"
    /\ rc_max = 0
    /\ rc_log = <<>>
    /\ rc_ret = None

\* intelligent_popup_dismissal is not running
InitNoPopups ==
    /\ pd_pc = "off"
    /\ pd_max = 0
    /\ pd_log = <<>>
    /\ dismissed_count = 0
    /\ pd_ret = Nil

\* the OTP/login simulation is not running
InitNoOtp ==
    /\ otp_pc = "off"
    /\ otp_clicks = <<>>
    /\ otp_fields = [email |-> <<>>, mobile |-> <<>>]
    /\ otp_pending = <<>>
    /\ login_tests = <<>>

\* clean_artifacts is not running
InitNoClean ==
    /\ cl_pc = "off"
    /\ cl_dirs = {}
    /\ cl_tree = <<>>
    /\ cl_other = {}
    /\ cl_before = <<>>
    /\ cl_dir = 0
    /\ cl_todo = <<>>
    /\ cleaned = 0
    /\ cl_printed = Nil

InitNoSuite ==
    /\ InitNoPrices
    /\ InitNoAccuracy
    /\ InitNoWorkflow
    /\ InitNoLanguage
    /\ InitNoOptions
    /\ InitNoCli
    /\ InitNoProducts
    /\ InitNoLadder
    /\ InitNoTiming
    /\ InitNoClick
    /\ InitNoPopups
    /\ InitNoOtp
    /\ InitNoClean
InitOthersPrice == InitCore /\ InitNoAccuracy /\ InitNoWorkflow /\ InitNoLanguage /\ InitNoOptions /\ InitNoCli /\ InitNoProducts /\ InitNoLadder /\ InitNoTiming /\ InitNoClick /\ InitNoPopups /\ InitNoOtp /\ InitNoClean
InitOthersAcc == InitCore /\ InitNoPrices /\ InitNoWorkflow /\ InitNoLanguage /\ InitNoOptions /\ InitNoCli /\ InitNoProducts /\ InitNoLadder /\ InitNoTiming /\ InitNoClick /\ InitNoPopups /\ InitNoOtp /\ InitNoClean
InitOthersFlow == InitCore /\ InitNoPrices /\ InitNoAccuracy /\ InitNoLanguage /\ InitNoOptions /\ InitNoCli /\ InitNoProducts /\ InitNoLadder /\ InitNoTiming /\ InitNoClick /\ InitNoPopups /\ InitNoOtp /\ InitNoClean
InitOthersLang == InitCore /\ InitNoPrices /\ InitNoAccuracy /\ InitNoWorkflow /\ InitNoOptions /\ InitNoCli /\ InitNoProducts /\ InitNoLadder /\ InitNoTiming /\ InitNoClick /\ InitNoPopups /\ InitNoOtp /\ InitNoClean
InitOthersOpt == InitCore /\ InitNoPrices /\ InitNoAccuracy /\ InitNoWorkflow /\ InitNoLanguage /\ InitNoCli /\ InitNoProducts /\ InitNoLadder /\ InitNoTiming /\ InitNoClick /\ InitNoPopups /\ InitNoOtp /\ InitNoClean
InitOthersProduct == InitCore /\ InitNoPrices /\ InitNoAccuracy /\ InitNoWorkflow /\ InitNoLanguage /\ InitNoOptions /\ InitNoCli /\ InitNoLadder /\ InitNoTiming /\ InitNoClick /\ InitNoPopups /\ InitNoOtp /\ InitNoClean
InitOthersLadder == InitCore /\ InitNoPrices /\ InitNoAccuracy /\ InitNoWorkflow /\ InitNoLanguage /\ InitNoOptions /\ InitNoCli /\ InitNoProducts /\ InitNoTiming /\ InitNoClick /\ InitNoPopups /\ InitNoOtp /\ InitNoClean
InitOthersTiming == InitCore /\ InitNoPrices /\ InitNoAccuracy /\ InitNoWorkflow /\ InitNoLanguage /\ InitNoOptions /\ InitNoCli /\ InitNoProducts /\ InitNoLadder /\ InitNoClick /\ InitNoPopups /\ InitNoOtp /\ InitNoClean
InitOthersClick == InitCore /\ InitNoPrices /\ InitNoAccuracy /\ InitNoWorkflow /\ InitNoLanguage /\ InitNoOptions /\ InitNoCli /\ InitNoProducts /\ InitNoLadder /\ InitNoTiming /\ InitNoPopups /\ InitNoOtp /\ InitNoClean
InitOthersPopup == InitCore /\ InitNoPrices /\ InitNoAccuracy /\ InitNoWorkflow /\ InitNoLanguage /\ InitNoOptions /\ InitNoCli /\ InitNoProducts /\ InitNoLadder /\ InitNoTiming /\ InitNoClick /\ InitNoOtp /\ InitNoClean
InitOthersOtp == InitCore /\ InitNoPrices /\ InitNoAccuracy /\ InitNoWorkflow /\ InitNoLanguage /\ InitNoOptions /\ InitNoCli /\ InitNoProducts /\ InitNoLadder /\ InitNoTiming /\ InitNoClick /\ InitNoPopups /\ InitNoClean
InitOthersClean == InitCore /\ InitNoPrices /\ InitNoAccuracy /\ InitNoWorkflow /\ InitNoLanguage /\ InitNoOptions /\ InitNoCli /\ InitNoProducts /\ InitNoLadder /\ InitNoTiming /\ InitNoClick /\ InitNoPopups /\ InitNoOtp

InitSummary ==
    /\ InitReporter
    /\ InitEnv
    /\ InitNoRun
    /\ InitNoHelper
    /\ InitNoSuite
    /\ calls = [s \in Statuses |-> 0]
    /\ script = "record"

CallStartSession ==
    /\ script = "record"
    /\ start_session
    /\ UNCHANGED <<envVars, calls, script, runVars, dirs>>
    /\ UNCHANGED helperVars

CallEndSession ==
    /\ script = "record"
    /\ end_session
    /\ UNCHANGED <<envVars, calls, script, runVars, dirs>>
    /\ UNCHANGED helperVars

CallAddTestResult ==
    /\ script = "record"
    /\ Len(test_results) < MaxResults
    /\ \E a \in ResultArgs :
          add_test_result("test_1", a[1], a[2],
                          IF a[1] = "failed" THEN "Test failed" ELSE None, None)
    /\ UNCHANGED <<envVars, script, runVars, dirs>>
    /\ UNCHANGED helperVars

CallGenerateHtml ==
    /\ script \in {"record", "json"}
    /\ generate_enhanced_html_report(TRUE)
    /\ script' = IF script = "record" THEN "html" ELSE "both"
    /\ UNCHANGED <<now, files, json_file, calls, runVars>>
    /\ UNCHANGED helperVars

CallGenerateJson ==
    /\ script \in {"record", "html"}
    /\ generate_json_report(TRUE)
    /\ script' = IF script = "record" THEN "json" ELSE "both"
    /\ UNCHANGED <<now, files, html_file, calls, runVars>>
    /\ UNCHANGED helperVars

TickSummary ==
    /\ script = "record"
    /\ Tick

NextSummary ==
    \/ TickSummary
    \/ CallStartSession
    \/ CallEndSession
    \/ CallAddTestResult
    \/ CallGenerateHtml
    \/ CallGenerateJson

SpecSummary == InitSummary /\ [][NextSummary]_vars

\* the statuses of the recorded results, in order
StatusList == [i \in 1..Len(test_results) |-> test_results[i].status]

\* C5: once the JSON report is written, its summary has total_tests equal to
\* the number of add_test_result calls, passed/failed/skipped equal to the
\* number of calls with that status, total_tests = passed + failed + skipped,
\* success_rate = passed / total_tests * 100 (0 when nothing was recorded),
\* 0 <= success_rate <= 100, and [passed, passed, failed, skipped] gives
\* 4, 2, 1, 1 and 50.0.
C5_SummaryArithmetic ==
    json_file # Nil =>
        LET s == Val(json_file).summary
            r == s.success_rate
        IN  /\ s.total_tests = calls["passed"] + calls["failed"] + calls["skipped"]
            /\ s.passed = calls["passed"]
            /\ s.failed = calls["failed"]
            /\ s.skipped = calls["skipped"]
            /\ s.total_tests = s.passed + s.failed + s.skipped
            /\ r.den > 0
            /\ IF s.total_tests = 0
               THEN r.num = 0
               ELSE r.num * s.total_tests = s.passed * 100 * r.den
            /\ 0 <= r.num /\ r.num <= 100 * r.den
            /\ StatusList = <<"passed", "passed", "failed", "skipped">> =>
                  /\ <<s.total_tests, s.passed, s.failed, s.skipped>> = <<4, 2, 1, 1>>
                  /\ r.num = 50 * r.den

\* C5 witness: the JSON report of the session [passed, passed, failed, skipped]
C5_Witness ==
    /\ json_file # Nil
    /\ StatusList = <<"passed", "passed", "failed", "skipped">>

\* the summary numbers of the two generators agree on the current state
SummariesAgree ==
    LET h == HtmlSummary(test_results, start_time, end_time)
        j == JsonSummary(test_results)
    IN  /\ h.total_tests = j.total_tests
        /\ h.passed = j.passed
        /\ h.failed = j.failed
        /\ h.skipped = j.skipped
        /\ h.success_rate = j.success_rate
        /\ h.duration = JsonSession(start_time, end_time).duration

\* the two documents written from one session agree (the HTML one shows the
\* success rate to one decimal place)
DocumentsAgree ==
    script = "both" =>
        LET h == Val(html_file)
            j == Val(json_file)
        IN  /\ h.total_tests = j.summary.total_tests
            /\ h.passed = j.summary.passed
            /\ h.failed = j.summary.failed
            /\ h.skipped = j.summary.skipped
            /\ h.success_rate = Fmt1(j.summary.success_rate)
            /\ h.session_duration = j.session.duration

\* C6: in every reporter state the summary numbers the HTML generator computes
\* (total, passed, failed, skipped, success rate, session duration) equal the
\* JSON generator's, so do the numbers of the two documents written from one
\* session, and a step that writes a report leaves the reporter state unchanged.
C6_GeneratorsAgree ==
    /\ [](SummariesAgree /\ DocumentsAgree)
    /\ [][(html_file' # html_file \/ json_file' # json_file)
            => UNCHANGED reporterVars]_vars

\* C6 witness: both reports written from a session with a skipped and a
\* passed test and a positive session duration
C6_Witness ==
    /\ script = "both"
    /\ calls["skipped"] > 0 /\ calls["passed"] > 0 /\ calls["failed"] > 0
    /\ Val(json_file).session.duration > 0

-----------------------------------------------------------------------------
(* SpecGallery: screenshots are registered while files of screenshots/ come  *)
(* and go, and the HTML report is rendered at any time                       *)

InitGallery == InitSummary

CreateFile ==
    /\ \E p \in Paths : p \notin files /\ files' = files \cup {p}
    /\ UNCHANGED <<reporterVars, now, html_file, json_file, calls, script, runVars, dirs>>
    /\ UNCHANGED helperVars

DeleteFile ==
    /\ \E p \in Paths : p \in files /\ files' = files \ {p}
    /\ UNCHANGED <<reporterVars, now, html_file, json_file, calls, script, runVars, dirs>>
    /\ UNCHANGED helperVars

AddScreenshotOf(p) ==
    /\ Len(screenshots) < MaxShots
    /\ add_screenshot(p, "shot")
    /\ UNCHANGED <<envVars, calls, script, runVars, dirs>>
    /\ UNCHANGED helperVars

CallAddScreenshot == \E p \in Paths : AddScreenshotOf(p)

RenderHtml ==
    /\ generate_enhanced_html_report(TRUE)
    /\ UNCHANGED <<now, files, json_file, calls, script, runVars>>
    /\ UNCHANGED helperVars

NextGallery ==
    \/ CreateFile
    \/ DeleteFile
    \/ CallAddScreenshot
    \/ RenderHtml

SpecGallery == InitGallery /\ [][NextGallery]_vars

\* the paths of the registered screenshots, in order
ShotPaths == [i \in 1..Len(screenshots) |-> screenshots[i].path]

\* the set of elements of a sequence
Range(f) == {f[i] : i \in DOMAIN f}

\* C7: an add_screenshot call for a path that is not on disk leaves the
\* screenshot list as it was, and every HTML report written references in its
\* gallery only files on disk at the moment of rendering.
C7_ScreenshotIntegrity ==
    [][/\ \A p \in Paths :
            (AddScreenshotOf(p) /\ ~Exists(files, p)) => screenshots' = screenshots
       /\ html_file' # html_file =>
            Range(Val(html_file').gallery) \subseteq files]_vars

\* C7 witness: b.png was registered, then a.png; b.png was deleted and the
\* report rendered after that shows a.png alone
C7_Witness ==
    /\ ShotPaths = <<"screenshots/b.png", "screenshots/a.png">>
    /\ files = {"screenshots/a.png"}
    /\ html_file # Nil
    /\ Val(html_file).gallery = <<"screenshots/a.png">>

-----------------------------------------------------------------------------
(* Browser launch (browser_config.py) *)

\* how one launch attempt ends: the driver is returned; the attempt raises
\* before a browser is up (driver download or webdriver.Chrome fails); or the
\* browser is launched and a later call of the attempt (maximize_window,
\* execute_script, get, ...) raises
AttemptOutcomes == {"ok", "no_browser", "browser_then_error"}

\* the three attempts of create_visible_chrome_driver in order: full options,
\* minimal options, minimal options after clear_webdriver_cache
LadderAttempts == 1..3

\* create_visible_chrome_driver under the attempt outcomes o: the attempts
\* made, the browsers launched, the attempts that clear_webdriver_cache
\* precedes, and the driver returned (Nil: the final exception is raised).
\* An except branch starts the next attempt without quitting the browser of
\* the attempt that failed.
create_visible_chrome_driver(o) ==
    LET succeeded == {i \in LadderAttempts : o[i] = "ok"}
        first == IF succeeded = {} THEN 0
                 ELSE CHOOSE i \in succeeded : \A j \in succeeded : i <= j
        made == IF first = 0 THEN LadderAttempts ELSE 1..first
    IN  [made |-> made,
         launched |-> {i \in made : o[i] # "no_browser"},
         cleared |-> made \cap {1, 3},
         driver |-> IF first = 0 THEN Nil ELSE Some(first)]

-----------------------------------------------------------------------------
(* The pytest run (conftest.py).  pytest runs each collected test through    *)
(* its setup, call and teardown phases, calling pytest_runtest_makereport     *)
(* after each phase; the session fixture is set up in the setup phase of the  *)
(* first test that requests it and torn down in the teardown phase of the     *)
(* last test; pytest_sessionfinish runs after the last test's teardown.  An   *)
(* exception out of a hook ends the run loop: pytest_sessionfinish then runs  *)
(* and the fixtures still set up are finalized after it.                      *)

TestName(i) == "test_" \o ToString(i)

\* how driver.save_screenshot ends: the file is written; the write fails and
\* False is returned; the driver command raises (no session, crashed browser)
ShotOutcomes == {"saved", "not_written", "raises"}

\* take_screenshot's file name (the timestamp suffix is left out)
ShotFile(name) == "screenshots/" \o name \o ".png"

InitRun ==
    /\ InitReporter
    /\ InitEnv
    /\ InitNoSuite
    /\ calls = [s \in Statuses |-> 0]
    /\ script = "record"
    /\ pc = "setup"
    /\ collected \in 1..MaxTests
    /\ cur = 1
    /\ test = Nil
    /\ fixture = "unset"
    /\ dirs = {}
    /\ browsers = {}
    /\ driver = Nil
    /\ log = <<>>
    /\ call_reports = 0
    /\ attempted = {}
    /\ io_failed = {}
    /\ InitNoHelper

\* setup half of the browser_setup fixture (conftest.py:16-23)
FixtureSetup(o) ==
    LET d == create_visible_chrome_driver(o)
    IN  /\ dirs' = dirs \cup {"screenshots", "reports", "logs"}
        /\ start_time' = Some(now)
        /\ log' = Append(log, "start_session")
        /\ browsers' = browsers \cup d.launched
        /\ driver' = d.driver
        /\ fixture' = IF d.driver = Nil THEN "failed" ELSE "active"

\* teardown half of the browser_setup fixture (conftest.py:25-35): each
\* statement runs only if the one before it did not raise
FixtureTeardown(html_ok, json_ok) ==
    /\ end_time' = Some(now)
    /\ html_file' = IF html_ok
                    THEN Some(HtmlDocument(test_results, performance_metrics,
                                           screenshots, start_time, Some(now), files))
                    ELSE html_file
    /\ json_file' = IF html_ok /\ json_ok
                    THEN Some(JsonDocument(test_results, performance_metrics,
                                           screenshots, start_time, Some(now)))
                    ELSE json_file
    /\ log' = log \o <<"end_session", "html">> \o (IF html_ok THEN <<"json">> ELSE <<>>)
    /\ attempted' = attempted \cup {"html"} \cup (IF html_ok THEN {"json"} ELSE {})
    /\ io_failed' = io_failed \cup (IF ~html_ok THEN {"html"} ELSE {})
                              \cup (IF html_ok /\ ~json_ok THEN {"json"} ELSE {})
    /\ browsers' = IF html_ok /\ json_ok THEN browsers \ {Val(driver)} ELSE browsers
    /\ fixture' = "finalized"
    /\ dirs' = dirs \cup {"reports"}
    /\ UNCHANGED <<test_results, performance_metrics, screenshots, start_time,
                   now, files, driver>>

\* setup phase of the current test
RunSetup ==
    /\ pc = "setup"
    /\ \E uses \in BOOLEAN :
          IF uses /\ fixture = "unset"
          THEN \E o \in [LadderAttempts -> AttemptOutcomes] :
                  /\ FixtureSetup(o)
                  /\ test' = [uses_fixture |-> uses, setup_ok |-> fixture' = "active",
                              outcome |-> None, longrepr |-> None]
          ELSE /\ test' = [uses_fixture |-> uses,
                           setup_ok |-> ~uses \/ fixture = "active",
                           outcome |-> None, longrepr |-> None]
               /\ UNCHANGED <<dirs, start_time, log, browsers, driver, fixture>>
    /\ pc' = "report_setup"
    /\ UNCHANGED <<test_results, performance_metrics, screenshots, end_time,
                   envVars, calls, script, collected, cur, call_reports,
                   attempted, io_failed>>
    /\ UNCHANGED helperVars

\* call phase of the current test: the test body runs to an outcome
RunCall ==
    /\ pc = "call"
    /\ \E outcome \in Statuses, longrepr \in {None, "detail"} :
          /\ outcome = "passed" => longrepr = None
          /\ test' = [test EXCEPT !.outcome = outcome, !.longrepr = longrepr]
    /\ pc' = "report_call"
    /\ call_reports' = call_reports + 1
    /\ UNCHANGED <<reporterVars, envVars, calls, script, collected, cur, fixture,
                   dirs, browsers, driver, log, attempted, io_failed>>
    /\ UNCHANGED helperVars

\* the hook body for the call phase (conftest.py:46-78), with the wall-clock
\* difference duration and the way the failure screenshot ends
MakeCallReport(duration, shot) ==
    LET name == TestName(cur)
        status == test.outcome
        error_message ==
            IF status = "passed" THEN None
            ELSE IF status = "failed"
                 THEN (IF test.longrepr # None THEN test.longrepr ELSE "Test failed")
                 ELSE test.longrepr
        shoots == status = "failed" /\ test.uses_fixture
        screenshot_path == IF shoots THEN ShotFile("FAILED_" \o name) ELSE None
        files1 == IF shoots /\ shot = "saved" THEN files \cup {screenshot_path} ELSE files
        shots1 == IF shoots
                  THEN ShotsAfterAdd(screenshots, files1, screenshot_path,
                                     "Failure screenshot for " \o name)
                  ELSE screenshots
    IN  IF shoots /\ shot = "raises"
        THEN \* take_screenshot raises out of the hook
             /\ dirs' = dirs \cup {"screenshots"}
             /\ pc' = "sessionfinish"
             /\ UNCHANGED <<reporterVars, files, calls, log>>
        ELSE /\ dirs' = IF shoots THEN dirs \cup {"screenshots"} ELSE dirs
             /\ files' = files1
             /\ screenshots' = shots1
             /\ test_results' = Append(test_results,
                    NewResult(name, status, Some(duration), error_message, screenshot_path))
             /\ calls' = [calls EXCEPT ![status] = @ + 1]
             /\ performance_metrics' =
                    IF duration > 0
                    THEN DictPut(performance_metrics, "test_" \o name \o "_duration",
                                 [value |-> duration, unit |-> "seconds"])
                    ELSE performance_metrics
             /\ log' = log \o (IF shoots THEN <<"add_screenshot">> ELSE <<>>)
                           \o <<"add_test_result">>
                           \o (IF duration > 0 THEN <<"add_performance_metric">> ELSE <<>>)
             /\ pc' = "teardown"
             /\ UNCHANGED <<start_time, end_time>>

\* pytest_runtest_makereport (conftest.py:38-78), called after each phase
pytest_runtest_makereport ==
    /\ pc \in {"report_setup", "report_call", "report_teardown"}
    /\ IF pc = "report_call"
       THEN \E duration \in {0, 1}, shot \in ShotOutcomes :
               MakeCallReport(duration, shot)
       ELSE /\ pc' = IF pc = "report_setup"
                     THEN (IF test.setup_ok THEN "call" ELSE "teardown")
                     ELSE (IF cur < collected THEN "setup" ELSE "sessionfinish")
            /\ UNCHANGED <<reporterVars, files, calls, log, dirs>>
    /\ cur' = IF pc = "report_teardown" /\ cur < collected THEN cur + 1 ELSE cur
    /\ UNCHANGED <<now, html_file, json_file, script, collected, test, fixture,
                   browsers, driver, call_reports, attempted, io_failed>>
    /\ UNCHANGED helperVars

\* teardown phase of the current test; the last test's teardown finalizes the
\* session fixture
RunTeardown ==
    /\ pc = "teardown"
    /\ IF cur = collected /\ fixture = "active"
       THEN \E html_ok \in BOOLEAN, json_ok \in BOOLEAN : FixtureTeardown(html_ok, json_ok)
       ELSE UNCHANGED <<reporterVars, envVars, log, attempted, io_failed, browsers,
                        fixture, driver, dirs>>
    /\ pc' = "report_teardown"
    /\ UNCHANGED <<calls, script, collected, cur, test, call_reports>>
    /\ UNCHANGED helperVars

\* pytest_sessionfinish (conftest.py:96-102)
pytest_sessionfinish ==
    /\ pc = "sessionfinish"
    /\ performance_metrics' = DictPut(performance_metrics, "total_tests_collected",
                                      [value |-> collected, unit |-> "tests"])
    /\ log' = Append(log, "add_performance_metric")
    /\ pc' = IF fixture = "active" THEN "finalize" ELSE "done"
    /\ UNCHANGED <<test_results, screenshots, start_time, end_time, envVars, calls,
                   script, collected, cur, test, fixture, dirs, browsers, driver,
                   call_reports, attempted, io_failed>>
    /\ UNCHANGED helperVars

\* a session fixture still set up when the run loop ended is finalized after
\* pytest_sessionfinish
FinalizeFixture ==
    /\ pc = "finalize"
    /\ \E html_ok \in BOOLEAN, json_ok \in BOOLEAN : FixtureTeardown(html_ok, json_ok)
    /\ pc' = "done"
    /\ UNCHANGED <<calls, script, collected, cur, test, call_reports>>
    /\ UNCHANGED helperVars

\* wall-clock time passes while a test body runs
TickRun ==
    /\ pc = "call"
    /\ Tick

NextRun ==
    \/ TickRun
    \/ RunSetup
    \/ RunCall
    \/ pytest_runtest_makereport
    \/ RunTeardown
    \/ pytest_sessionfinish
    \/ FinalizeFixture

SpecRun == InitRun /\ [][NextRun]_vars

\* C2: while the session fixture is set up exactly one browser launched by the
\* run is alive, whichever launch attempt produced the driver, and after the
\* fixture's teardown none is alive.
C2_OneBrowser ==
    /\ fixture = "active" => browsers = {Val(driver)}
    /\ fixture = "finalized" => browsers = {}

AddCalls == {"add_test_result", "add_performance_metric", "add_screenshot"}
RenderCalls == {"html", "json"}

\* C3: in a run whose first reporter call is the fixture's start_session, no
\* second start_session follows, every add_* call precedes end_session,
\* end_session happens once and before the reports are rendered, no add_* call
\* follows a rendering, and the rendered reports hold every metric recorded
\* (the session-end total_tests_collected metric included).
C3_ReporterLifecycle ==
    (log # <<>> /\ log[1] = "start_session") =>
        /\ \A i, j \in DOMAIN log :
              i < j =>
                 /\ log[j] # "start_session"
                 /\ ~(log[i] = "end_session" /\ log[j] \in AddCalls \cup {"end_session"})
                 /\ ~(log[i] \in RenderCalls /\ log[j] \in AddCalls \cup {"end_session"})
        /\ html_file # Nil => Val(html_file).metrics = performance_metrics
        /\ json_file # Nil => Val(json_file).performance_metrics = performance_metrics

\* C4: once the hook has handled a test's call-phase report, one TestResult
\* per call-phase report is recorded, the last one carrying the status of the
\* test's outcome, also when the failure screenshot could not be taken.
C4_AlwaysRecords ==
    /\ Len(test_results) = IF pc = "report_call" THEN call_reports - 1 ELSE call_reports
    /\ (pc = "teardown" /\ test.setup_ok) =>
          /\ test_results # <<>>
          /\ test_results[Len(test_results)].status = test.outcome
          /\ test_results[Len(test_results)].test_name = TestName(cur)

\* C8: when the write of one report fails, the other report is attempted too.
C8_ReportIndependence ==
    io_failed # {} => attempted = {"html", "json"}

-----------------------------------------------------------------------------
(* SpecTabs: single-tab navigation (browser_config.py, test_helpers.py)      *)
(* while pages spawn windows                                                 *)

\* enforce_single_tab_mode (browser_config.py:279-328) on the handle list hs.
\* script_ok: execute_script of the injected script does not raise.
\* closable: how many of the extra handles switch_to.window/close handle
\* before one of them raises (all of them when none raises).
\* Any exception is caught and False returned with things left as they are.
enforce_single_tab_mode(hs, hk, script_ok, closable) ==
    IF ~script_ok
    THEN [ret |-> FALSE, handles |-> hs, hooked |-> hk]
    ELSE IF Len(hs) > 1 /\ closable < Len(hs) - 1
         THEN [ret |-> FALSE,
               handles |-> <<hs[1]>> \o SubSeq(hs, closable + 2, Len(hs)),
               hooked |-> TRUE]
         ELSE [ret |-> TRUE, handles |-> <<hs[1]>>, hooked |-> TRUE]

InitTabs ==
    /\ InitReporter
    /\ InitEnv
    /\ InitNoSuite
    /\ InitNoRun
    /\ calls = [s \in Statuses |-> 0]
    /\ script = "record"
    /\ InitNoHelper

\* the loaded page opens a window (a target="_blank" link, window.open); the
\* injected override keeps a page that carries it from doing so
PageSpawnsWindow ==
    /\ ~hooked
    /\ Len(handles) < MaxHandles
    /\ next_handle <= MaxSpawns + 1
    /\ handles' = Append(handles, next_handle)
    /\ next_handle' = next_handle + 1
    /\ enforce_ret' = "none"
    /\ UNCHANGED <<hooked, nav_pc>>
    /\ UNCHANGED <<reporterVars, envVars, calls, script, runVars, dirs, finderVars, suiteVars>>

\* one call of enforce_single_tab_mode from navigate_single_tab: line 39
\* (before driver.get) or line 46 (after it); its return value is not looked at
NavigateEnforce ==
    /\ nav_pc \in {"idle", "loaded"}
    /\ \E script_ok \in BOOLEAN, closable \in 0..(Len(handles) - 1) :
          LET r == enforce_single_tab_mode(handles, hooked, script_ok, closable)
          IN  /\ handles' = r.handles
              /\ hooked' = r.hooked
              /\ enforce_ret' = IF r.ret THEN "True" ELSE "False"
    /\ nav_pc' = IF nav_pc = "idle" THEN "get" ELSE "idle"
    /\ UNCHANGED next_handle
    /\ UNCHANGED <<reporterVars, envVars, calls, script, runVars, dirs, finderVars, suiteVars>>

\* driver.get(url) of navigate_single_tab (line 42): a new document is loaded,
\* without the injected override; when it raises, navigate_single_tab returns
NavigateGet ==
    /\ nav_pc = "get"
    /\ \E get_ok \in BOOLEAN :
          /\ nav_pc' = IF get_ok THEN "loaded" ELSE "idle"
          /\ hooked' = IF get_ok THEN FALSE ELSE hooked
    /\ enforce_ret' = "none"
    /\ UNCHANGED <<handles, next_handle>>
    /\ UNCHANGED <<reporterVars, envVars, calls, script, runVars, dirs, finderVars, suiteVars>>

NextTabs ==
    \/ PageSpawnsWindow
    \/ NavigateEnforce
    \/ NavigateGet

SpecTabs == InitTabs /\ [][NextTabs]_vars

\* C1: right after a call of enforce_single_tab_mode has returned, True or
\* False, exactly one window handle is open and it is the original one.
C1_SingleTab ==
    enforce_ret # "none" => handles = <<1>>

-----------------------------------------------------------------------------
(* SpecFinder: advanced_element_finder (test_helpers.py:74-102)              *)

\* what waiting on one selector leads to: the wait times out; the locator
\* raises NoSuchElementException; the element is found and is_displayed() is
\* False; it is found and displayed; it is found and is_displayed() raises
\* StaleElementReferenceException; the locator raises another
\* WebDriverException (InvalidSelectorException for a selector such as
\* ".a-button-text:contains('Menu')", NoSuchWindowException, ...)
SelectorOutcomes ==
    {"timeout", "no_such_element", "hidden", "displayed", "stale", "error"}

\* one iteration of the for loop on a selector with outcome o: "return" the
\* element (line 97), go to the "next" selector (the if fails, or line 100's
\* continue), or "raise" (an exception line 99 does not name)
FinderIteration(o) ==
    IF o = "displayed" THEN "return"
    ELSE IF o \in {"hidden", "timeout", "no_such_element"} THEN "next"
    ELSE "raise"

InitFinder ==
    /\ InitReporter
    /\ InitEnv
    /\ InitNoSuite
    /\ InitNoRun
    /\ calls = [s \in Statuses |-> 0]
    /\ script = "record"
    /\ handles = <<1>>
    /\ next_handle = 2
    /\ hooked = FALSE
    /\ nav_pc = "idle"
    /\ enforce_ret = "none"
    /\ page \in UNION {[1..n -> SelectorOutcomes] : n \in 0..MaxSelectors}
    /\ f_i = 1
    /\ f_pc = "loop"
    /\ f_result = Nil
    /\ f_waits = <<>>

\* the loop body for selectors_list[f_i]; the element of selector i is i
FinderTry ==
    /\ f_pc = "loop"
    /\ f_i <= Len(page)
    /\ f_waits' = Append(f_waits, f_i)
    /\ LET step == FinderIteration(page[f_i])
       IN  /\ f_pc' = IF step = "return" THEN "returned"
                      ELSE IF step = "raise" THEN "raised" ELSE "loop"
           /\ f_result' = IF step = "return" THEN Some(f_i) ELSE f_result
           /\ f_i' = IF step = "next" THEN f_i + 1 ELSE f_i
    /\ UNCHANGED page
    /\ UNCHANGED <<reporterVars, envVars, calls, script, runVars, dirs, tabVars, suiteVars>>

\* return None after the loop (line 102)
FinderExhausted ==
    /\ f_pc = "loop"
    /\ f_i > Len(page)
    /\ f_pc' = "returned"
    /\ f_result' = Nil
    /\ UNCHANGED <<page, f_i, f_waits>>
    /\ UNCHANGED <<reporterVars, envVars, calls, script, runVars, dirs, tabVars, suiteVars>>

NextFinder ==
    \/ FinderTry
    \/ FinderExhausted

SpecFinder == InitFinder /\ [][NextFinder]_vars

\* the selectors whose element is found and displayed
DisplayedSelectors == {i \in DOMAIN page : page[i] = "displayed"}

\* C9: when some selector of the list matches a displayed element, the call
\* ends by returning the element of the lowest-indexed such selector,
\* whatever its position in the list.
C9_FirstDisplayed ==
    (f_pc \in {"returned", "raised"} /\ DisplayedSelectors # {}) =>
        /\ f_pc = "returned"
        /\ f_result # Nil
        /\ Val(f_result) \in DisplayedSelectors
        /\ \A j \in DisplayedSelectors : Val(f_result) <= j

\* the selectors whose wait finds an element
MatchingSelectors == {i \in DOMAIN page : page[i] \in {"displayed", "hidden", "stale"}}

\* C10: the selectors are waited on in list order, each at most once, so at
\* most N waits are made, and when no selector matches an element the call
\* ends by returning None.
C10_FallbackTerminates ==
    /\ f_waits = [k \in 1..Len(f_waits) |-> k]
    /\ Len(f_waits) <= Len(page)
    /\ (f_pc \in {"returned", "raised"} /\ MatchingSelectors = {}) =>
          /\ f_pc = "returned"
          /\ f_result = Nil

-----------------------------------------------------------------------------
(* Price extraction (utils/test_helpers.py:149-225).  Text is a sequence of *)
(* one-character strings.                                                  *)

\* most product elements handed to smart_price_extractor
MaxProducts == 2
\* entries of price_selectors that find anything in a product element (the
\* other entries find nothing and are passed over)
MaxPriceSelectors == 2
\* longest list find_elements returns for one selector
MaxCandidates == 2

\* the accepted range of line 213
MinPrice == 50
MaxPrice == 10000000

Digits == {"0", "1", "2", "3", "4", "5", "6", "7", "8", "9"}

DigitValue(c) ==
    CASE c = "0" -> 0 [] c = "1" -> 1 [] c = "2" -> 2 [] c = "3" -> 3
      [] c = "4" -> 4 [] c = "5" -> 5 [] c = "6" -> 6 [] c = "7" -> 7
      [] c = "8" -> 8 [] c = "9" -> 9

\* int(digits)
RECURSIVE ToInt(_)
ToInt(ds) ==
    IF ds = <<>> THEN 0
    ELSE 10 * ToInt(SubSeq(ds, 1, Len(ds) - 1)) + DigitValue(ds[Len(ds)])

RECURSIVE StripLeft(_)
StripLeft(s) == IF s # <<>> /\ Head(s) = " " THEN StripLeft(Tail(s)) ELSE s

Reverse(s) == [i \in 1..Len(s) |-> s[Len(s) + 1 - i]]

\* str.strip()
strip(s) == Reverse(StripLeft(Reverse(StripLeft(s))))

\* str.replace(',', '')
RemoveCommas(s) == SelectSeq(s, LAMBDA c : c # ",")

\* re.sub(r'<[^>]+>', '', html): a "<" opens a tag when a ">" follows it with
\* at least one character in between
RECURSIVE StripTags(_)
StripTags(s) ==
    IF s = <<>> THEN <<>>
    ELSE LET closes == {j \in 2..Len(s) : s[j] = ">"}
             first == CHOOSE j \in closes : \A k \in closes : j <= k
         IN  IF Head(s) = "<" /\ closes # {} /\ first >= 3
             THEN StripTags(SubSeq(s, first + 1, Len(s)))
             ELSE <<Head(s)>> \o StripTags(Tail(s))

\* re.search(r'[\d,]+', t).group(), <<>> when there is no match
FirstPriceRun(t) ==
    LET hits == {i \in 1..Len(t) : t[i] \in Digits \cup {","}}
    IN  IF hits = {} THEN <<>>
        ELSE LET a == CHOOSE i \in hits : \A k \in hits : i <= k
                 b == CHOOSE j \in a..Len(t) :
                          /\ \A k \in a..j : k \in hits
                          /\ j + 1 \notin hits
             IN  SubSeq(t, a, b)

\* lines 208-211: the integer parsed from a price text, Nil when the pattern
\* does not match or int() raises ValueError
ParsePrice(price_text) ==
    LET run == FirstPriceRun(RemoveCommas(price_text))
        digits == RemoveCommas(run)
    IN  IF digits = <<>> THEN Nil ELSE Some(ToInt(digits))

\* lines 190-204: the text taken from a price element, <<>> when all three
\* methods give nothing
PriceText(e) ==
    IF strip(e.text) # <<>> THEN strip(e.text)
    ELSE IF e.textContent # <<>> THEN strip(e.textContent)
    ELSE IF e.innerHTML # <<>> THEN strip(StripTags(e.innerHTML))
    ELSE <<>>

\* line 213 without its lower bound
InPriceRangeNoFloor(price_value) == price_value <= MaxPrice

\* line 213
InPriceRange(price_value) == MinPrice <= price_value /\ price_value <= MaxPrice

\* price elements a product element may hold; the last one is stale, so that
\* reading it raises
PriceElements == {
    [raises |-> FALSE, text |-> <<"1", "0">>, textContent |-> <<>>,
     innerHTML |-> <<>>],
    [raises |-> FALSE, text |-> <<"4", "9">>, textContent |-> <<>>,
     innerHTML |-> <<>>],
    [raises |-> FALSE, text |-> <<"5", "0">>, textContent |-> <<>>,
     innerHTML |-> <<>>],
    [raises |-> FALSE, text |-> <<"R", "s", " ", "1", ",", "2", "9", "9", ".", "0", "0">>, textContent |-> <<>>,
     innerHTML |-> <<>>],
    [raises |-> FALSE, text |-> <<"1", "0", ",", "0", "0", "0", ",", "0", "0", "0">>, textContent |-> <<>>,
     innerHTML |-> <<>>],
    [raises |-> FALSE, text |-> <<"5", "0", ",", "0", "0", "0", ",", "0", "0", "1">>, textContent |-> <<>>,
     innerHTML |-> <<>>],
    [raises |-> FALSE, text |-> <<>>, textContent |-> <<" ", "4", "9", "9", " ">>,
     innerHTML |-> <<>>],
    [raises |-> FALSE, text |-> <<>>, textContent |-> <<>>,
     innerHTML |-> <<"<", "b", ">", "1", "0", ",", "0", "0", "0", ",", "0", "0", "1", "<", "/", "b", ">">>],
    [raises |-> FALSE, text |-> <<" ">>, textContent |-> <<>>,
     innerHTML |-> <<"<", "i", ">", "7", "5", "<", "/", "i", ">">>],
    [raises |-> FALSE, text |-> <<"F", "r", "e", "e">>, textContent |-> <<>>,
     innerHTML |-> <<>>],
    [raises |-> TRUE, text |-> <<>>, textContent |-> <<>>, innerHTML |-> <<>>]}

CandidateLists == UNION {[1..n -> PriceElements] : n \in 0..MaxCandidates}

\* lines 188-220, the loop over the elements one selector found: the dict
\* returned, or Nil when the loop ends or an exception sends the outer loop
\* to the next selector
RECURSIVE ScanCandidates(_, _)
ScanCandidates(price_elements, selector) ==
    IF price_elements = <<>> THEN Nil
    ELSE LET e == Head(price_elements)
             price_text == PriceText(e)
             price_value == ParsePrice(price_text)
         IN  IF e.raises THEN Nil
             ELSE IF price_text # <<>> /\ price_value # Nil
                     /\ InPriceRange(Val(price_value))
             THEN Some([price |-> Val(price_value), original_text |-> price_text,
                        selector_used |-> selector])
             ELSE ScanCandidates(Tail(price_elements), selector)

\* what find_elements does for one selector: it raises, or returns a list
FindOutcomes ==
    {[raises |-> TRUE, found |-> <<>>]}
        \cup {[raises |-> FALSE, found |-> l] : l \in CandidateLists}

\* the values the candidate texts of a list parse to
ParsedValues(price_elements) ==
    {Val(ParsePrice(PriceText(price_elements[k]))) :
        k \in {j \in 1..Len(price_elements) :
                  /\ ~price_elements[j].raises
                  /\ ParsePrice(PriceText(price_elements[j])) # Nil}}

\* smart_price_extractor, one pass of the selector loop of
\* extract_price_from_element (line 184) for the product under way; when the
\* pass returns a price or was the last one, lines 155-156 take the result
\* and the loop of line 153 moves to the next product
ExtractStep(o) ==
    /\ price_i \in 1..MaxPriceSelectors
    /\ price_i = 1 => products_done < MaxProducts
    /\ LET found == IF o.raises THEN Nil ELSE ScanCandidates(o.found, price_i)
           parsed == ParsedValues(o.found)
       IN  /\ cand_in' = ((price_i > 1 /\ cand_in)
                            \/ \E v \in parsed : 50 <= v /\ v <= 10000000)
           /\ cand_out' = ((price_i > 1 /\ cand_out)
                            \/ \E v \in parsed : v < 50 \/ v > 10000000)
           /\ IF found # Nil \/ price_i = MaxPriceSelectors
              THEN /\ price_data' = found
                   /\ prices_found' = IF found # Nil
                                      THEN Append(prices_found, Val(found))
                                      ELSE prices_found
                   /\ products_done' = products_done + 1
                   /\ price_i' = 1
              ELSE /\ price_i' = price_i + 1
                   /\ UNCHANGED <<price_data, prices_found, products_done>>
    /\ UNCHANGED othersPrice

\* line 158: the product list is exhausted and prices_found is returned
ExtractorReturns ==
    /\ price_i = 1
    /\ price_i' = 0
    /\ UNCHANGED <<prices_found, products_done, price_data, cand_in, cand_out>>
    /\ UNCHANGED othersPrice

InitPrices ==
    /\ InitOthersPrice
    /\ prices_found = <<>>
    /\ products_done = 0
    /\ price_i = 1
    /\ price_data = Nil
    /\ cand_in = FALSE
    /\ cand_out = FALSE

NextPrices ==
    \/ \E o \in FindOutcomes : ExtractStep(o)
    \/ ExtractorReturns

SpecPrices == InitPrices /\ [][NextPrices]_vars

\* C11: every price extract_price_from_element returns, and so every entry of
\* smart_price_extractor's list, lies in 50..10,000,000, and a product none of
\* whose candidate texts parses to a value in that range gives None
C11_PriceBounds ==
    /\ \A k \in 1..Len(prices_found) :
           50 <= prices_found[k].price /\ prices_found[k].price <= 10000000
    /\ price_data # Nil =>
           50 <= Val(price_data).price /\ Val(price_data).price <= 10000000
    /\ (products_done > 0 /\ price_i <= 1 /\ ~cand_in) => price_data = Nil

\* C11 witness: the extractor has returned a list holding a price, and its
\* last product, whose candidate texts parsed only to out-of-range values,
\* gave None
C11_Witness ==
    /\ price_i = 0
    /\ Len(prices_found) = 1
    /\ products_done = 2
    /\ cand_out /\ ~cand_in
    /\ price_data = Nil

-----------------------------------------------------------------------------
(* Price-accuracy validation (tests/test_amazon_complete.py:1117-1152).    *)
(* A product record keeps the two keys the validator reads: title (None,   *)
(* or text) and price (None, or an integer).                               *)

\* longest products_data list explored
MaxRecords == 3

\* tolerance_percent=30 of line 1117
TolerancePercent == 30
\* the [:50] of line 1133 and the [:3] of line 1149
TitleCut == 50
InvalidShown == 3

\* the price limits of test_price_limits (lines 1043-1046)
ExpectedMaxPrices == {500, 20000}

\* titles: None (extract_product_title_enhanced found none, line 727), the
\* synthesized "Product 1" (line 1071), a title of 51 characters
ProductTitles ==
    {Nil, Some(<<"P", "r", "o", "d", "u", "c", "t", " ", "1">>), Some([i \in 1..51 |-> "x"])}

ProductPrices == {Nil, Some(400), Some(625), Some(650), Some(651), Some(26000), Some(26001)}

\* the records extract_comprehensive_product_data keeps (line 688): those
\* with a title or a price
ProductRecords ==
    {[title |-> t, price |-> p] :
        <<t, p>> \in {x \in ProductTitles \X ProductPrices : x[1] # Nil \/ x[2] # Nil}}

\* product.get("price") as a condition
HasPrice(product) == product.price # Nil /\ Val(product.price) # 0

\* the comparison of line 1128 with no tolerance added
WithinCeiling(price, E) == price <= E

\* price <= expected_max_price + expected_max_price * (tolerance_percent / 100)
\* for integer prices: the float sum is within an ulp of 1.3 * E, which is either
\* an integer computed exactly or at least 1/10 away from every integer
WithinTolerance(price, E) == price * 100 <= E * (100 + TolerancePercent)

\* s[:n]
Prefix(s, n) == SubSeq(s, 1, IF Len(s) < n THEN Len(s) ELSE n)

\* lines 1117-1152; raises is "TypeError" when line 1133 slices a None title
validate_price_accuracy_enhanced(pd, E) ==
    IF pd = <<>>
    THEN [raises |-> None, accuracy |-> ZeroRate, passed |-> FALSE]
    ELSE LET priced == SelectSeq(pd, HasPrice)
             valid_prices == SelectSeq(priced,
                                 LAMBDA p : WithinTolerance(Val(p.price), E))
             invalid == SelectSeq(priced,
                                 LAMBDA p : ~WithinTolerance(Val(p.price), E))
             invalid_prices ==
                 [k \in 1..Len(invalid) |->
                     [title |-> Prefix(Val(invalid[k].title), TitleCut),
                      price |-> Val(invalid[k].price),
                      expected_max |-> E]]
             total_with_prices == Len(valid_prices) + Len(invalid)
             accuracy == IF total_with_prices > 0
                         THEN Rate(Len(valid_prices), total_with_prices)
                         ELSE ZeroRate
         IN  IF \E k \in 1..Len(invalid) : invalid[k].title = Nil
             THEN [raises |-> "TypeError"]
             ELSE [raises |-> None,
                   accuracy |-> accuracy,
                   valid_count |-> Len(valid_prices),
                   invalid_count |-> Len(invalid),
                   total_products |-> Len(pd),
                   products_with_prices |-> total_with_prices,
                   invalid_products |-> Prefix(invalid_prices, InvalidShown),
                   passed |-> (accuracy.num >= 40 * accuracy.den
                               \/ Len(valid_prices) >= 2)]

\* a record joins the list the test hands over (lines 689, 1069)
AppendProduct(product) ==
    /\ validation_result = Nil
    /\ original_result = Nil
    /\ Len(products_data) < MaxRecords
    /\ products_data' = Append(products_data, product)
    /\ UNCHANGED <<expected_max_price, validation_result, original_result>>
    /\ UNCHANGED othersAcc

\* the call of line 1083
ValidatePrices ==
    /\ validation_result = Nil
    /\ validation_result' =
           Some(validate_price_accuracy_enhanced(products_data, expected_max_price))
    /\ UNCHANGED <<products_data, expected_max_price, original_result>>
    /\ UNCHANGED othersAcc

\* tolerance_percent=25 of line 870
OriginalTolerancePercent == 25

\* price <= expected_max_price + expected_max_price * (tolerance_percent / 100)
\* of lines 877-882; 25 / 100 and the sum are exact in floating point
WithinOriginalTolerance(price, E) == price * 100 <= E * (100 + OriginalTolerancePercent)

\* lines 870-902 (the same text as test_amazon_complete_backup.py:399-431);
\* the result for an empty list has no "passed" key
validate_price_accuracy(pd, E) ==
    IF pd = <<>>
    THEN [raises |-> None, accuracy |-> ZeroRate]
    ELSE LET priced == SelectSeq(pd, HasPrice)
             valid_prices == SelectSeq(priced,
                                 LAMBDA p : WithinOriginalTolerance(Val(p.price), E))
             invalid == SelectSeq(priced,
                                 LAMBDA p : ~WithinOriginalTolerance(Val(p.price), E))
             invalid_prices ==
                 [k \in 1..Len(invalid) |->
                     [title |-> Prefix(Val(invalid[k].title), TitleCut),
                      price |-> Val(invalid[k].price),
                      expected_max |-> E]]
             total_with_prices == Len(valid_prices) + Len(invalid)
             accuracy == IF total_with_prices > 0
                         THEN Rate(Len(valid_prices), total_with_prices)
                         ELSE ZeroRate
         IN  IF \E k \in 1..Len(invalid) : invalid[k].title = Nil
             THEN [raises |-> "TypeError"]
             ELSE [raises |-> None,
                   accuracy |-> accuracy,
                   valid_count |-> Len(valid_prices),
                   invalid_count |-> Len(invalid),
                   total_products |-> Len(pd),
                   products_with_prices |-> total_with_prices,
                   invalid_products |-> Prefix(invalid_prices, InvalidShown),
                   passed |-> accuracy.num >= 70 * accuracy.den]

\* the same list and limit handed to the original validator (as in the call
\* of test_amazon_complete_backup.py:560)
ValidatePricesOriginal ==
    /\ original_result = Nil
    /\ original_result' =
           Some(validate_price_accuracy(products_data, expected_max_price))
    /\ UNCHANGED <<products_data, expected_max_price, validation_result>>
    /\ UNCHANGED othersAcc

InitAccuracy ==
    /\ InitOthersAcc
    /\ products_data = <<>>
    /\ expected_max_price \in ExpectedMaxPrices
    /\ validation_result = Nil
    /\ original_result = Nil

NextAccuracy ==
    \/ \E product \in ProductRecords : AppendProduct(product)
    \/ ValidatePrices
    \/ ValidatePricesOriginal

SpecAccuracy == InitAccuracy /\ [][NextAccuracy]_vars

\* the priced records of the list within / above 1.3 times the expected price
PricedWithin ==
    {k \in 1..Len(products_data) :
        /\ products_data[k].price # Nil
        /\ 10 * Val(products_data[k].price) <= 13 * expected_max_price}
PricedAbove ==
    {k \in 1..Len(products_data) :
        /\ products_data[k].price # Nil
        /\ 10 * Val(products_data[k].price) > 13 * expected_max_price}

\* C12: for a non-empty list the validator returns the counts of priced
\* products within and above 1.3 * E, which add up to products_with_prices <=
\* total_products, accuracy 100 * valid / (valid + invalid) (0 when nothing is
\* priced) and passed = (accuracy >= 40 or valid_count >= 2); for an empty
\* list passed is false
C12_AccuracyRule ==
    validation_result # Nil =>
        LET r == Val(validation_result)
            v == Cardinality(PricedWithin)
            w == Cardinality(PricedAbove)
        IN  /\ r.raises = None
            /\ IF products_data = <<>> THEN r.passed = FALSE
               ELSE /\ r.valid_count = v
                    /\ r.invalid_count = w
                    /\ r.products_with_prices = v + w
                    /\ r.products_with_prices <= r.total_products
                    /\ r.total_products = Len(products_data)
                    /\ IF v + w = 0 THEN r.accuracy.num = 0
                       ELSE r.accuracy.num * (v + w) = 100 * v * r.accuracy.den
                    /\ r.passed = (r.accuracy.num >= 40 * r.accuracy.den \/ v >= 2)

-----------------------------------------------------------------------------
(* The combined workflow test (tests/test_amazon_complete.py:3059-3161)    *)

\* most elements / records a finder or an extraction gives
MaxFound == 3

\* "len(products_data) < 3" (line 3097), "len(products_data) < 10" (line
\* 3103), basic_products[:3] (line 3133), "total_phases_passed >= 3" (3159)
SupplementBelow == 3
SupplementCap == 10
InteractionSample == 3
MinPhases == 3

Least(a, b) == IF a < b THEN a ELSE b

\* lines 3062-3086: navigation, title and search-box checks (nav_ok: they
\* all pass), then smart_product_finder gives found products
WorkflowPhase1(nav_ok, found) ==
    /\ wf_pc = "phase1"
    /\ IF nav_ok
       THEN /\ basic_products' = found
            /\ wf_pc' = IF found >= 1 THEN "phase2" ELSE "failed1"
       ELSE /\ wf_pc' = "failed1"
            /\ UNCHANGED basic_products
    /\ UNCHANGED <<wf_products, products_with_prices, interaction_score>>
    /\ UNCHANGED othersFlow

\* lines 3088-3127: extraction gives extracted records, priced of them with a
\* price; below three records the prices smart_price_extractor finds in
\* basic_products are appended up to ten records
WorkflowPhase2(extracted, priced, price_data_list) ==
    /\ wf_pc = "phase2"
    /\ LET appended == IF extracted < SupplementBelow
                       THEN Least(price_data_list, SupplementCap - extracted)
                       ELSE 0
       IN  /\ wf_products' = extracted + appended
           /\ products_with_prices' = priced + appended
           /\ wf_pc' = IF extracted + appended >= 1 THEN "phase3" ELSE "failed2"
    /\ UNCHANGED <<basic_products, interaction_score>>
    /\ UNCHANGED othersFlow

\* lines 3129-3138 without the assertion of line 3137
WorkflowPhase3Unchecked(score) ==
    /\ wf_pc = "phase3"
    /\ interaction_score' = score
    /\ wf_pc' = "phase4"
    /\ UNCHANGED <<basic_products, wf_products, products_with_prices>>
    /\ UNCHANGED othersFlow

\* lines 3129-3138
WorkflowPhase3(score) ==
    /\ wf_pc = "phase3"
    /\ interaction_score' = score
    /\ wf_pc' = IF score >= 1 THEN "phase4" ELSE "failed3"
    /\ UNCHANGED <<basic_products, wf_products, products_with_prices>>
    /\ UNCHANGED othersFlow

\* the four flags of lines 3144-3147
basic_success == basic_products >= 1
advanced_success == wf_products >= 1
interaction_success == interaction_score >= 1
price_data_success == products_with_prices >= 1 \/ wf_products >= 3

\* sum([...]) of line 3149
total_phases_passed ==
    (IF basic_success THEN 1 ELSE 0) + (IF advanced_success THEN 1 ELSE 0)
        + (IF interaction_success THEN 1 ELSE 0)
        + (IF price_data_success THEN 1 ELSE 0)

\* lines 3140-3161: the summary and the final assertion
WorkflowPhase4 ==
    /\ wf_pc = "phase4"
    /\ wf_pc' = IF total_phases_passed >= MinPhases THEN "passed" ELSE "failed4"
    /\ UNCHANGED <<basic_products, wf_products, products_with_prices,
                   interaction_score>>
    /\ UNCHANGED othersFlow

InitWorkflow ==
    /\ InitOthersFlow
    /\ wf_pc = "phase1"
    /\ basic_products = 0
    /\ wf_products = 0
    /\ products_with_prices = 0
    /\ interaction_score = 0

NextWorkflow ==
    \/ \E nav_ok \in BOOLEAN, found \in 0..MaxFound : WorkflowPhase1(nav_ok, found)
    \/ \E extracted \in 0..MaxFound :
           \E priced \in 0..extracted, price_data_list \in 0..basic_products :
               WorkflowPhase2(extracted, priced, price_data_list)
    \/ \E score \in 0..Least(InteractionSample, basic_products) : WorkflowPhase3(score)
    \/ WorkflowPhase4

SpecWorkflow == InitWorkflow /\ [][NextWorkflow]_vars

\* C13: once the three measuring phases have run, the test passes exactly
\* when at least 3 of the 4 phase-success flags are true
C13_WorkflowThreshold ==
    wf_pc \in {"passed", "failed3", "failed4"} =>
        (wf_pc = "passed" <=> total_phases_passed >= 3)

-----------------------------------------------------------------------------
(* Language conversion checks of test_advanced_language_changing           *)
(* (tests/test_amazon_complete.py:1966-2640).  The k-th entry of a         *)
(* language's verification_indicators list is written <<language, k>>; no  *)
(* entry of the lists of lines 1990-2057 occurs twice or inside another.   *)

\* language_configs in dict order (lines 1980-2060)
LanguageOrder == <<"hindi", "tamil", "telugu", "kannada", "english">>
\* priority_languages (line 2335)
PriorityLanguages == <<"hindi", "tamil", "english", "telugu", "kannada">>
\* lengths of the verification_indicators lists
IndicatorCount ==
    [l \in {"hindi", "english"} |-> 10] @@ [l \in {"tamil"} |-> 9]
        @@ [l \in {"telugu", "kannada"} |-> 8]

verification_indicators(lang_name) == [k \in 1..IndicatorCount[lang_name] |-> <<lang_name, k>>]

\* "len(languages_to_test) < 2" (line 2339), "len(detected_indicators) >= 2"
\* (line 2544), "indicator_count >= 2" (line 2608), "indicator_count >= 5"
\* (line 2612)
MaxTested == 2
MinIndicators == 2
MinDetected == 2
PrimaryIndicators == 5

\* markups the page may show, by the indicators occurring in them
PageSources == {
    {},
    {<<"hindi", 1>>},
    {<<"hindi", 1>>, <<"hindi", 4>>},
    {<<"tamil", 1>>, <<"tamil", 2>>, <<"tamil", 9>>, <<"hindi", 1>>},
    {<<"tamil", 3>>, <<"english", 4>>},
    {<<"hindi", 1>>, <<"hindi", 2>>, <<"tamil", 1>>, <<"tamil", 2>>},
    {<<"hindi", 1>>, <<"hindi", 2>>, <<"english", 1>>, <<"english", 2>>,
     <<"english", 3>>},
    {<<"english", 1>>, <<"english", 3>>, <<"english", 5>>, <<"english", 6>>,
     <<"english", 7>>, <<"kannada", 2>>, <<"kannada", 8>>}}

\* lines 2336-2340: the first MaxTested available languages in priority order
RECURSIVE PickLanguages(_, _, _)
PickLanguages(priority, available, picked) ==
    IF priority = <<>> THEN picked
    ELSE PickLanguages(Tail(priority), available,
                       IF Head(priority) \in available /\ Len(picked) < MaxTested
                       THEN Append(picked, Head(priority))
                       ELSE picked)

\* lines 2537-2540: the indicators of a list that occur in the markup
DetectedIndicators(indicators, source) ==
    SelectSeq(indicators, LAMBDA indicator : indicator \in source)

\* line 2544 with a threshold of one indicator
ConversionSuccessAtOne(detected_indicators) == Len(detected_indicators) >= 1

\* line 2544
ConversionSuccess(detected_indicators) == Len(detected_indicators) >= MinIndicators

\* an iteration of the loop of line 2346 that does not get to the
\* verification: the radio button or the Save control was not clicked, or an
\* exception was caught at line 2585
SkipLanguage ==
    /\ lang_pc = "convert"
    /\ lang_i <= Len(languages_to_test)
    /\ lang_i' = lang_i + 1
    /\ lang_pc' = IF lang_i = Len(languages_to_test) THEN "analyze" ELSE "convert"
    /\ verified_lang' = None
    /\ UNCHANGED <<languages_to_test, language_tests, successful_conversions,
                   page_source>>
    /\ UNCHANGED othersLang

\* lines 2527-2577 for the language under test, after Save Changes was
\* clicked: source is the markup then read, nav_verification what
\* verify_navigation_language_change gives
VerifyConversion(source, nav_verification) ==
    /\ lang_pc = "convert"
    /\ lang_i <= Len(languages_to_test)
    /\ LET lang_name == languages_to_test[lang_i]
           detected_indicators ==
               DetectedIndicators(verification_indicators(lang_name), source)
           conversion_success == ConversionSuccess(detected_indicators)
           verified == [step |-> "conversion_verified",
                        language |-> lang_name,
                        indicators_found |-> detected_indicators,
                        indicator_count |-> Len(detected_indicators),
                        conversion_successful |-> conversion_success,
                        success |-> conversion_success]
           navigation == [step |-> "navigation_converted",
                          language |-> lang_name,
                          success |-> TRUE]
           stop == detected_indicators # <<>> /\ conversion_success
       IN  /\ language_tests' =
                  language_tests
                      \o (IF detected_indicators # <<>> THEN <<verified>> ELSE <<>>)
                      \o (IF stop /\ nav_verification THEN <<navigation>> ELSE <<>>)
           /\ successful_conversions' =
                  successful_conversions + (IF stop THEN 1 ELSE 0)
           /\ lang_i' = IF stop THEN Len(languages_to_test) + 1 ELSE lang_i + 1
           /\ lang_pc' = IF stop \/ lang_i = Len(languages_to_test)
                         THEN "analyze" ELSE "convert"
           /\ verified_lang' = lang_name
    /\ page_source' = source
    /\ UNCHANGED languages_to_test
    /\ UNCHANGED othersLang

\* lines 2604-2613: the languages with at least MinDetected indicators in
\* the markup, in language_configs order
RECURSIVE CurrentLanguages(_, _)
CurrentLanguages(order, source) ==
    IF order = <<>> THEN <<>>
    ELSE LET indicator_count ==
                 Len(DetectedIndicators(verification_indicators(Head(order)), source))
         IN  (IF indicator_count >= MinDetected
              THEN <<[language |-> Head(order),
                      indicator_count |-> indicator_count,
                      primary |-> indicator_count >= PrimaryIndicators]>>
              ELSE <<>>) \o CurrentLanguages(Tail(order), source)

\* list.sort(key=indicator_count, reverse=True): stable, largest first
RECURSIVE SortByCount(_)
SortByCount(ls) ==
    IF ls = <<>> THEN <<>>
    ELSE LET rest == SortByCount(SubSeq(ls, 1, Len(ls) - 1))
             x == ls[Len(ls)]
             ahead == SelectSeq(rest, LAMBDA y : y.indicator_count >= x.indicator_count)
             behind == SelectSeq(rest, LAMBDA y : y.indicator_count < x.indicator_count)
         IN  ahead \o <<x>> \o behind

\* lines 2598-2626: phase 4 on the markup then read
AnalyzeCurrentPage(source) ==
    /\ lang_pc = "analyze"
    /\ LET current_language_detected == SortByCount(CurrentLanguages(LanguageOrder, source))
       IN  language_tests' =
               IF current_language_detected # <<>>
               THEN Append(language_tests,
                           [step |-> "current_language_analysis",
                            detected_languages |-> current_language_detected,
                            primary_language |-> current_language_detected[1].language,
                            success |-> TRUE])
               ELSE language_tests
    /\ page_source' = source
    /\ verified_lang' = None
    /\ lang_pc' = "analyzed"
    /\ UNCHANGED <<languages_to_test, lang_i, successful_conversions>>
    /\ UNCHANGED othersLang

InitLanguage ==
    /\ InitOthersLang
    /\ \E available \in SUBSET {"hindi", "tamil", "telugu", "kannada", "english"} :
           /\ languages_to_test = PickLanguages(PriorityLanguages, available, <<>>)
           /\ lang_pc = IF languages_to_test = <<>> THEN "analyze" ELSE "convert"
    /\ lang_i = 1
    /\ language_tests = <<>>
    /\ successful_conversions = 0
    /\ page_source = {}
    /\ verified_lang = None

NextLanguage ==
    \/ SkipLanguage
    \/ \E source \in PageSources, nav_verification \in BOOLEAN :
           VerifyConversion(source, nav_verification)
    \/ \E source \in PageSources : AnalyzeCurrentPage(source)

SpecLanguage == InitLanguage /\ [][NextLanguage]_vars

\* the number of a language's indicators occurring in the markup last read
OccurringIndicators(lang_name) ==
    Cardinality({k \in 1..IndicatorCount[lang_name] : <<lang_name, k>> \in page_source})

\* C14: after a language's save its conversion is recorded as verified exactly
\* when at least 2 of its indicators occur in the markup read; the analysis of
\* the current page lists only languages with at least 2 indicators occurring
\* and names as primary a listed language with the largest count
C14_IndicatorThreshold ==
    /\ verified_lang # None =>
           ((\E i \in 1..Len(language_tests) :
                 /\ language_tests[i].step = "conversion_verified"
                 /\ language_tests[i].language = verified_lang
                 /\ language_tests[i].conversion_successful)
             <=> OccurringIndicators(verified_lang) >= 2)
    /\ lang_pc = "analyzed" =>
           \A i \in 1..Len(language_tests) :
               language_tests[i].step = "current_language_analysis" =>
                   LET listed == language_tests[i].detected_languages
                       names == {listed[j].language : j \in 1..Len(listed)}
                   IN  /\ \A l \in names : OccurringIndicators(l) >= 2
                       /\ language_tests[i].primary_language \in names
                       /\ \A l \in names :
                              OccurringIndicators(l)
                                  <= OccurringIndicators(language_tests[i].primary_language)

\* C14 witness: a first language was saved onto a page with one of its
\* indicators and recorded as not converted, a second one was verified, and the
\* analysis listed two languages, naming as primary the one that comes later
\* in language_configs
C14_Witness ==
    /\ lang_pc = "analyzed"
    /\ Len(language_tests) = 3
    /\ language_tests[1].step = "conversion_verified"
    /\ language_tests[1].indicator_count = 1
    /\ ~language_tests[1].conversion_successful
    /\ language_tests[2].step = "conversion_verified"
    /\ language_tests[2].conversion_successful
    /\ language_tests[3].step = "current_language_analysis"
    /\ Len(language_tests[3].detected_languages) = 2
    /\ language_tests[3].primary_language = "english"

-----------------------------------------------------------------------------
(* Browser options (utils/browser_config.py:14-55, 177-184, 331-340).  An   *)
(* argument is a sequence of one-character strings.                        *)

\* most arguments a caller adds to a built list
MaxInserted == 2

UpperCase == <<"A", "B", "C", "D", "E", "F", "G", "H", "I", "J", "K", "L", "M",
               "N", "O", "P", "Q", "R", "S", "T", "U", "V", "W", "X", "Y", "Z">>
LowerCase == <<"a", "b", "c", "d", "e", "f", "g", "h", "i", "j", "k", "l", "m",
               "n", "o", "p", "q", "r", "s", "t", "u", "v", "w", "x", "y", "z">>

\* str.lower()
lower(s) ==
    [i \in 1..Len(s) |->
        IF \E k \in 1..26 : UpperCase[k] = s[i]
        THEN LowerCase[CHOOSE k \in 1..26 : UpperCase[k] = s[i]]
        ELSE s[i]]

\* sub in s
Contains(sub, s) ==
    \E i \in 1..(Len(s) - Len(sub) + 1) : SubSeq(s, i, i + Len(sub) - 1) = sub

\* the literal of line 336
HeadlessFlag == <<"-", "-", "h", "e", "a", "d", "l", "e", "s", "s">>

\* the argument list of get_visible_chrome_options (lines 19-41)
get_visible_chrome_options == <<
    \* --start-maximized
    <<"-", "-", "s", "t", "a", "r", "t", "-", "m", "a", "x", "i", "m", "i",
     "z", "e", "d">>,
    \* --force-device-scale-factor=1
    <<"-", "-", "f", "o", "r", "c", "e", "-", "d", "e", "v", "i", "c", "e",
     "-", "s", "c", "a", "l", "e", "-", "f", "a", "c", "t", "o", "r", "=",
     "1">>,
    \* --disable-background-mode
    <<"-", "-", "d", "i", "s", "a", "b", "l", "e", "-", "b", "a", "c", "k",
     "g", "r", "o", "u", "n", "d", "-", "m", "o", "d", "e">>,
    \* --disable-background-timer-throttling
    <<"-", "-", "d", "i", "s", "a", "b", "l", "e", "-", "b", "a", "c", "k",
     "g", "r", "o", "u", "n", "d", "-", "t", "i", "m", "e", "r", "-", "t",
     "h", "r", "o", "t", "t", "l", "i", "n", "g">>,
    \* --disable-backgrounding-occluded-windows
    <<"-", "-", "d", "i", "s", "a", "b", "l", "e", "-", "b", "a", "c", "k",
     "g", "r", "o", "u", "n", "d", "i", "n", "g", "-", "o", "c", "c", "l",
     "u", "d", "e", "d", "-", "w", "i", "n", "d", "o", "w", "s">>,
    \* --disable-renderer-backgrounding
    <<"-", "-", "d", "i", "s", "a", "b", "l", "e", "-", "r", "e", "n", "d",
     "e", "r", "e", "r", "-", "b", "a", "c", "k", "g", "r", "o", "u", "n",
     "d", "i", "n", "g">>,
    \* --no-sandbox
    <<"-", "-", "n", "o", "-", "s", "a", "n", "d", "b", "o", "x">>,
    \* --disable-dev-shm-usage
    <<"-", "-", "d", "i", "s", "a", "b", "l", "e", "-", "d", "e", "v", "-",
     "s", "h", "m", "-", "u", "s", "a", "g", "e">>,
    \* --disable-extensions
    <<"-", "-", "d", "i", "s", "a", "b", "l", "e", "-", "e", "x", "t", "e",
     "n", "s", "i", "o", "n", "s">>,
    \* --disable-blink-features=AutomationControlled
    <<"-", "-", "d", "i", "s", "a", "b", "l", "e", "-", "b", "l", "i", "n",
     "k", "-", "f", "e", "a", "t", "u", "r", "e", "s", "=", "A", "u", "t",
     "o", "m", "a", "t", "i", "o", "n", "C", "o", "n", "t", "r", "o", "l",
     "l", "e", "d">>,
    \* --disable-notifications
    <<"-", "-", "d", "i", "s", "a", "b", "l", "e", "-", "n", "o", "t", "i",
     "f", "i", "c", "a", "t", "i", "o", "n", "s">>,
    \* --disable-popup-blocking
    <<"-", "-", "d", "i", "s", "a", "b", "l", "e", "-", "p", "o", "p", "u",
     "p", "-", "b", "l", "o", "c", "k", "i", "n", "g">>,
    \* --disable-default-apps
    <<"-", "-", "d", "i", "s", "a", "b", "l", "e", "-", "d", "e", "f", "a",
     "u", "l", "t", "-", "a", "p", "p", "s">>>>

\* the reduced list with a headless argument added
MinimalHeadlessOptions == <<
    <<"-", "-", "s", "t", "a", "r", "t", "-", "m", "a", "x", "i", "m", "i", "z", "e", "d">>,
    HeadlessFlag>>

\* the argument list of minimal_options (lines 178-180)
minimal_options == <<
    \* --start-maximized
    <<"-", "-", "s", "t", "a", "r", "t", "-", "m", "a", "x", "i", "m", "i",
     "z", "e", "d">>,
    \* --disable-blink-features=AutomationControlled
    <<"-", "-", "d", "i", "s", "a", "b", "l", "e", "-", "b", "l", "i", "n",
     "k", "-", "f", "e", "a", "t", "u", "r", "e", "s", "=", "A", "u", "t",
     "o", "m", "a", "t", "i", "o", "n", "C", "o", "n", "t", "r", "o", "l",
     "l", "e", "d">>>>

\* arguments a caller may add
InsertedArguments == {
    \* --headless
    <<"-", "-", "h", "e", "a", "d", "l", "e", "s", "s">>,
    \* --HEADLESS
    <<"-", "-", "H", "E", "A", "D", "L", "E", "S", "S">>,
    \* x--headLESS
    <<"x", "-", "-", "h", "e", "a", "d", "L", "E", "S", "S">>,
    \* --head
    <<"-", "-", "h", "e", "a", "d">>,
    \* -headless
    <<"-", "h", "e", "a", "d", "l", "e", "s", "s">>}

\* lines 331-340 without the lower() of line 336
ValidateCaseSensitive(arguments) ==
    IF \E k \in 1..Len(arguments) : Contains(HeadlessFlag, arguments[k])
    THEN "ValueError" ELSE "True"

\* lines 331-340: "ValueError" when it raises, "True" when it returns
validate_no_headless_mode(arguments) ==
    IF \E k \in 1..Len(arguments) : Contains(HeadlessFlag, lower(arguments[k]))
    THEN "ValueError" ELSE "True"

\* the options the k-th launch attempt of create_visible_chrome_driver hands
\* to webdriver.Chrome (lines 75, 184, 203)
AttemptOptions(k) == IF k = 1 THEN get_visible_chrome_options ELSE minimal_options

\* a caller builds the full option set
BuildOptions ==
    /\ chrome_options' = get_visible_chrome_options
    /\ opt_inserted' = 0
    /\ opt_ret' = "none"
    /\ UNCHANGED launched_with
    /\ UNCHANGED othersOpt

\* a caller builds the reduced option set
BuildMinimalOptions ==
    /\ chrome_options' = minimal_options
    /\ opt_inserted' = 0
    /\ opt_ret' = "none"
    /\ UNCHANGED launched_with
    /\ UNCHANGED othersOpt

\* chrome_options.add_argument(argument) by a caller
InsertArgument(argument) ==
    /\ opt_inserted < MaxInserted
    /\ chrome_options' = Append(chrome_options, argument)
    /\ opt_inserted' = opt_inserted + 1
    /\ opt_ret' = "none"
    /\ UNCHANGED launched_with
    /\ UNCHANGED othersOpt

\* validate_no_headless_mode(chrome_options) by a caller
ValidateOptions ==
    /\ opt_ret = "none"
    /\ opt_ret' = validate_no_headless_mode(chrome_options)
    /\ UNCHANGED <<chrome_options, opt_inserted, launched_with>>
    /\ UNCHANGED othersOpt

\* create_visible_chrome_driver() under the attempt outcomes o: it builds its
\* own option lists and takes none from its caller
LaunchDriver(o) ==
    /\ launched_with' =
           launched_with
               \cup {AttemptOptions(k) : k \in create_visible_chrome_driver(o).launched}
    /\ UNCHANGED <<chrome_options, opt_inserted, opt_ret>>
    /\ UNCHANGED othersOpt

InitOptions ==
    /\ InitOthersOpt
    /\ chrome_options = <<>>
    /\ opt_inserted = 0
    /\ opt_ret = "none"
    /\ launched_with = {}

NextOptions ==
    \/ BuildOptions
    \/ BuildMinimalOptions
    \/ \E argument \in InsertedArguments : InsertArgument(argument)
    \/ ValidateOptions
    \/ \E o \in [LadderAttempts -> AttemptOutcomes] : LaunchDriver(o)

SpecOptions == InitOptions /\ [][NextOptions]_vars

\* an argument holds the headless flag in some letter case
HoldsHeadless(argument) ==
    \E i \in 1..Len(argument) :
        /\ i + 9 <= Len(argument)
        /\ \A k \in 1..10 :
               \/ argument[i + k - 1] = HeadlessFlag[k]
               \/ \E n \in 1..26 : /\ argument[i + k - 1] = UpperCase[n]
                                  /\ LowerCase[n] = HeadlessFlag[k]

\* C15: validate_no_headless_mode raises when some argument of the list holds
\* a headless flag in any letter case and returns success otherwise, and no
\* browser is launched with a list holding one
C15_HeadlessRejected ==
    /\ opt_ret # "none" =>
           (opt_ret = "ValueError"
               <=> \E k \in 1..Len(chrome_options) : HoldsHeadless(chrome_options[k]))
    /\ opt_ret \in {"none", "ValueError", "True"}
    /\ \A arguments \in launched_with :
           \A k \in 1..Len(arguments) : ~HoldsHeadless(arguments[k])

\* C15 witness: the validator raised for a list whose only headless flag is
\* written in capitals, and browsers were launched
C15_Witness ==
    /\ opt_ret = "ValueError"
    /\ opt_inserted = 1
    /\ chrome_options[Len(chrome_options)] = <<"-", "-", "H", "E", "A", "D", "L", "E", "S", "S">>
    /\ launched_with # {}

\* C16: the full and the reduced option list, as built, hold no headless flag
\* and pass validate_no_headless_mode
C16_BuiltOptionsPass ==
    /\ \A arguments \in {get_visible_chrome_options, minimal_options} :
           \A k \in 1..Len(arguments) : ~HoldsHeadless(arguments[k])
    /\ (opt_ret # "none" /\ opt_inserted = 0 /\ chrome_options # <<>>) => opt_ret = "True"
    /\ \A arguments \in launched_with : validate_no_headless_mode(arguments) = "True"

\* C16 witness: both built lists were validated or launched: the full list
\* passed the validator and a retry attempt launched with the reduced list
C16_Witness ==
    /\ opt_ret = "True"
    /\ opt_inserted = 0
    /\ chrome_options = get_visible_chrome_options
    /\ minimal_options \in launched_with

-----------------------------------------------------------------------------
(* The test runner (run_tests.py).  Command-line arguments and input lines  *)
(* are sequences of one-character strings.  A test run is a subprocess: its *)
(* own steps are those of the pytest run above and are not replayed here.   *)
(* An uncaught exception ends the Python process with status 1, an uncaught *)
(* KeyboardInterrupt with status 130.  Interrupts are delivered in the      *)
(* interactive loop only.                                                   *)

\* most times the menu is shown
MaxMenus == 2

\* what check_environment meets: all checks pass; one of the three checks of
\* lines 26, 35, 48 fails; or a call of it raises (os.makedirs, an import that
\* fails with another exception than ImportError)
EnvOutcomes == {"ok", "python_too_old", "package_missing", "file_missing", "raises"}

\* lines 21-58: the value returned when it returns; every check passes
check_environment_lenient(env) == env \in {"ok", "file_missing"}

\* lines 21-58: the value returned when it returns
check_environment(env) == env = "ok"

\* the directories it has made when it is done (lines 54-55)
EnvDirs(env, ds) == IF env = "ok" THEN ds \cup {"screenshots", "reports", "logs"} ELSE ds

\* first arguments explored: none, the four flags, a flag in capitals, an
\* unknown flag, a flag without its dashes, the empty string
CliArguments == {Nil} \cup {Some(a) : a \in {
        <<"-", "-", "b", "a", "s", "i", "c">>,
        <<"-", "-", "a", "d", "v", "a", "n", "c", "e", "d">>,
        <<"-", "-", "b", "o", "t", "h">>,
        <<"-", "-", "a", "l", "l">>,
        <<"-", "-", "B", "A", "S", "I", "C">>,
        <<"-", "-", "f", "a", "s", "t">>,
        <<"b", "a", "s", "i", "c">>,
        <<>>}}

FlagBasic == <<"-", "-", "b", "a", "s", "i", "c">>
FlagAdvanced == <<"-", "-", "a", "d", "v", "a", "n", "c", "e", "d">>
FlagBoth == <<"-", "-", "b", "o", "t", "h">>
FlagAll == <<"-", "-", "a", "l", "l">>

\* what a run function hands to pytest: a class of test_amazon_complete.py
\* ("file" for the whole file) and the number of one test in the menu lists
\* (0 for all of them)
Suite(test_class, number) == [class |-> test_class, test |-> number]

\* lines 313-323 running everything for an unknown argument
SuiteOfArgumentAll(argument) ==
    LET arg == lower(argument)
    IN  IF arg = FlagBasic THEN Some(Suite("TestAmazonBasic", 0))
        ELSE IF arg = FlagAdvanced THEN Some(Suite("TestAmazonAdvanced", 0))
        ELSE Some(Suite("file", 0))

\* lines 313-323: the suite the argument selects, Nil for an unknown one
SuiteOfArgument(argument) ==
    LET arg == lower(argument)
    IN  IF arg = FlagBasic THEN Some(Suite("TestAmazonBasic", 0))
        ELSE IF arg = FlagAdvanced THEN Some(Suite("TestAmazonAdvanced", 0))
        ELSE IF arg = FlagBoth \/ arg = FlagAll THEN Some(Suite("file", 0))
        ELSE Nil

\* pytest's exit codes that the runs end with
ReturnCodes == {0, 1}

\* how a menu action or a run ends: subprocess.run returns (with a return
\* code, where there is a run); an exception is raised (subprocess.run cannot
\* start pytest, os.remove fails); a KeyboardInterrupt arrives
HandlerOutcomes ==
    {[kind |-> "returns", returncode |-> rc] : rc \in ReturnCodes}
        \cup {[kind |-> "raises", returncode |-> 0],
              [kind |-> "interrupt", returncode |-> 0]}

\* sys.exit(n) always reporting success
ExitStatusZero(n) == 0

\* sys.exit(n): the status the process ends with
ExitStatus(n) == n % 256

\* the state of the runner as one record
CliState ==
    [pc |-> cli_pc, exit |-> exit_status, runs |-> runs, rc |-> returncode,
     menus |-> menus_shown, bye |-> goodbye, intr |-> interrupted,
     errs |-> errors_printed, dirs |-> dirs, files |-> files,
     html |-> html_file, json |-> json_file]

\* the loop of line 326 comes round: show_menu, then input()
ToMenu(c) == [c EXCEPT !.pc = "menu", !.menus = @ + 1]

\* "[EXIT] Goodbye!", break, return 0 (lines 346-347, 355-356, 361); where is
\* the input() a KeyboardInterrupt arrived in, "none" for choice 0
Goodbye(c, where) ==
    [c EXCEPT !.pc = "exited", !.bye = TRUE, !.exit = Some(ExitStatus(0)),
              !.intr = IF where = "none" THEN @ ELSE where]

\* an exception leaves main
Uncaught(c, status, where) ==
    [c EXCEPT !.pc = "exited", !.exit = Some(status),
              !.intr = IF where = "none" THEN @ ELSE where]

\* lines 357-359: the error line is printed and input() waits
ErrorPrinted(c) == [c EXCEPT !.pc = "error_pause", !.errs = @ + 1]

\* subprocess.run(cmd) of a run function inside the try of line 330
RunInLoop(c, suite, out, after) ==
    LET started == [c EXCEPT !.runs = Append(@, suite)]
    IN  IF out.kind = "returns"
        THEN [started EXCEPT !.rc = Some(out.returncode), !.pc = after]
        ELSE IF out.kind = "raises" THEN ErrorPrinted(started)
        ELSE Goodbye(started, "handler")

\* lines read at the prompt of line 328
MenuLines == {<<"0">>, <<"1">>, <<"2">>, <<"3">>, <<"4">>, <<"5">>, <<"6">>, <<"7">>, <<"9">>, <<" ", "0">>, <<"1", " ">>, <<>>}

\* lines read at the prompt of line 255
CategoryLines == {<<"0">>, <<"1">>, <<"2">>, <<"3">>, <<"8">>, <<" ", "2">>}

\* lines read at the prompts of lines 261, 273, 294
TestLines == {<<"1", "2">>, <<"1", "3">>, <<"0", "1">>, <<" ", "1", " ">>, <<"x">>}

\* what an input() call meets besides a line: Ctrl-C or the end of input
InputEvents == {"KeyboardInterrupt", "EOFError"}

\* test_choice in [str(i) for i in range(1, n + 1)] (lines 267, 288, 295)
IsTestNumber(text, n) ==
    /\ text # <<>>
    /\ \A i \in 1..Len(text) : text[i] \in Digits
    /\ text[1] # "0"
    /\ ToInt(text) \in 1..n

\* the class and the length of the test list of a category (lines 120-124,
\* 262-266, 274-287, 296); Nil for another category choice
CategoryOf(choice) ==
    CASE choice = <<"1">> -> Some([class |-> "TestAmazonBasic", tests |-> 3])
      [] choice = <<"2">> -> Some([class |-> "TestAmazonAdvanced", tests |-> 12])
      [] choice = <<"3">> -> Some([class |-> "TestAmazonBoth", tests |-> 1])
      [] OTHER -> Nil

\* the new state is that of record n; the menu is shown MaxMenus times at most
Apply(n) ==
    /\ n.menus <= MaxMenus
    /\ cli_pc' = n.pc
    /\ exit_status' = n.exit
    /\ runs' = n.runs
    /\ returncode' = n.rc
    /\ menus_shown' = n.menus
    /\ goodbye' = n.bye
    /\ interrupted' = n.intr
    /\ errors_printed' = n.errs
    /\ dirs' = n.dirs
    /\ files' = n.files
    /\ html_file' = n.html
    /\ json_file' = n.json
    /\ UNCHANGED <<argv, env_result>>
    /\ UNCHANGED othersCli

\* main, lines 302-328: banner, environment check, the argument if there is
\* one (its run included), else the first menu
MainStart(env, out) ==
    /\ cli_pc = "start"
    /\ out.kind # "interrupt"
    /\ env_result' = env
    /\ dirs' = EnvDirs(env, dirs)
    /\ IF env = "raises"
       THEN /\ cli_pc' = "exited"
            /\ exit_status' = Some(1)
            /\ UNCHANGED <<runs, returncode, menus_shown>>
       ELSE IF ~check_environment(env)
       THEN /\ cli_pc' = "exited"
            /\ exit_status' = Some(ExitStatus(1))
            /\ UNCHANGED <<runs, returncode, menus_shown>>
       ELSE IF argv # Nil
       THEN LET suite == SuiteOfArgument(Val(argv))
            IN  IF suite = Nil
                THEN /\ cli_pc' = "exited"
                     /\ exit_status' = Some(ExitStatus(1))
                     /\ UNCHANGED <<runs, returncode, menus_shown>>
                ELSE /\ cli_pc' = "exited"
                     /\ runs' = Append(runs, Val(suite))
                     /\ IF out.kind = "returns"
                        THEN /\ returncode' = Some(out.returncode)
                             /\ exit_status' = Some(ExitStatus(out.returncode))
                        ELSE /\ returncode' = Nil
                             /\ exit_status' = Some(1)
                     /\ UNCHANGED menus_shown
       ELSE /\ cli_pc' = "menu"
            /\ menus_shown' = menus_shown + 1
            /\ UNCHANGED <<runs, returncode, exit_status>>
    /\ UNCHANGED <<argv, goodbye, interrupted, errors_printed,
                   files, html_file, json_file>>
    /\ UNCHANGED othersCli

\* lines 328-352, 357-358: a line is read at the menu prompt and handled
MenuChoice(line, out, env) ==
    LET choice == strip(line)
        c == CliState
    IN  /\ cli_pc = "menu"
        /\ Apply(
            CASE choice = <<"1">> ->
                   RunInLoop(c, Suite("TestAmazonBasic", 0), out, "pause")
              [] choice = <<"2">> ->
                   RunInLoop(c, Suite("TestAmazonAdvanced", 0), out, "pause")
              [] choice = <<"3">> ->
                   RunInLoop(c, Suite("file", 0), out, "pause")
              [] choice = <<"4">> -> [c EXCEPT !.pc = "submenu"]
              [] choice = <<"5">> -> ToMenu(c)
              [] choice = <<"6">> ->
                   IF env = "raises" THEN ErrorPrinted(c)
                   ELSE ToMenu([c EXCEPT !.dirs = EnvDirs(env, @)])
              [] choice = <<"7">> ->
                   \* clean_artifacts, lines 142-155; when it raises, os.remove
                   \* has failed on the first file
                   IF out.kind = "raises" THEN ErrorPrinted(c)
                   ELSE ToMenu([c EXCEPT !.files = {}, !.html = Nil, !.json = Nil])
              [] choice = <<"0">> -> Goodbye(c, "none")
              [] OTHER -> ToMenu(c))

\* line 328: input() of the menu prompt raises; the call is outside the try
MenuInterrupt(event) ==
    /\ cli_pc = "menu"
    /\ Apply(IF event = "KeyboardInterrupt"
             THEN Uncaught(CliState, 130, "menu")
             ELSE Uncaught(CliState, 1, "none"))

\* line 352: the pause after a run of choices 1-3, inside the try
PauseInput(event) ==
    /\ cli_pc = "pause"
    /\ Apply(CASE event = "Enter" -> ToMenu(CliState)
               [] event = "KeyboardInterrupt" -> Goodbye(CliState, "pause")
               [] OTHER -> ErrorPrinted(CliState))

\* line 359: the pause of the except clause, outside every try
ErrorPauseInput(event) ==
    /\ cli_pc = "error_pause"
    /\ Apply(CASE event = "Enter" -> ToMenu(CliState)
               [] event = "KeyboardInterrupt" -> Uncaught(CliState, 130, "error_pause")
               [] OTHER -> Uncaught(CliState, 1, "none"))

\* handle_specific_test_selection, one round of its loop (lines 253-299): a
\* category line, a test line, the run of that one test
SubmenuChoice(category_line, test_line, out) ==
    LET category == CategoryOf(strip(category_line))
        test_choice == strip(test_line)
        c == CliState
    IN  /\ cli_pc = "submenu"
        /\ Apply(
            IF strip(category_line) = <<"0">> THEN ToMenu(c)
            ELSE IF category = Nil THEN c
            ELSE IF ~IsTestNumber(test_choice, Val(category).tests) THEN c
            ELSE RunInLoop(c, Suite(Val(category).class, ToInt(test_choice)),
                           out, "after_specific"))

\* lines 270, 291, 297 and 351: break, return, no pause for choice 4
AfterSpecific ==
    /\ cli_pc = "after_specific"
    /\ Apply(ToMenu(CliState))

\* an input() of lines 255, 261, 273, 294 raises, inside the try of line 330
SubmenuInterrupt(event) ==
    /\ cli_pc = "submenu"
    /\ Apply(IF event = "KeyboardInterrupt"
             THEN Goodbye(CliState, "submenu")
             ELSE ErrorPrinted(CliState))

\* the runner is started with the artifacts of earlier runs on disk
InitCli ==
    /\ InitReporter
    /\ InitNoRun
    /\ InitNoHelper
    /\ InitNoPrices
    /\ InitNoAccuracy
    /\ InitNoWorkflow
    /\ InitNoLanguage
    /\ InitNoOptions
    /\ InitNoProducts
    /\ InitNoLadder
    /\ InitNoTiming
    /\ InitNoClick
    /\ InitNoPopups
    /\ InitNoOtp
    /\ InitNoClean
    /\ calls = [s \in Statuses |-> 0]
    /\ script = "record"
    /\ now = 0
    /\ files \in {{}, Paths}
    /\ html_file = Nil
    /\ json_file = Nil
    /\ cli_pc = "start"
    /\ argv \in CliArguments
    /\ env_result = "none"
    /\ exit_status = Nil
    /\ runs = <<>>
    /\ returncode = Nil
    /\ menus_shown = 0
    /\ goodbye = FALSE
    /\ interrupted = "none"
    /\ errors_printed = 0

NextCli ==
    \/ \E env \in EnvOutcomes, out \in HandlerOutcomes : MainStart(env, out)
    \/ \E line \in MenuLines, out \in HandlerOutcomes, env \in EnvOutcomes :
           MenuChoice(line, out, env)
    \/ \E event \in InputEvents : MenuInterrupt(event)
    \/ \E event \in InputEvents \cup {"Enter"} : PauseInput(event)
    \/ \E event \in InputEvents \cup {"Enter"} : ErrorPauseInput(event)
    \/ \E category_line \in CategoryLines, test_line \in TestLines,
          out \in HandlerOutcomes : SubmenuChoice(category_line, test_line, out)
    \/ AfterSpecific
    \/ \E event \in InputEvents : SubmenuInterrupt(event)

SpecCli == InitCli /\ [][NextCli]_vars

-----------------------------------------------------------------------------
(* Claims about the test runner *)

\* the explored arguments that are none of --basic, --advanced, --both, --all
\* in any letter case
UnrecognizedArguments == {<<"-", "-", "f", "a", "s", "t">>, <<"b", "a", "s", "i", "c">>, <<>>}

\* the suite each recognized argument stands for
ExpectedSuite(argument) ==
    CASE argument \in {<<"-", "-", "b", "a", "s", "i", "c">>, <<"-", "-", "B", "A", "S", "I", "C">>} ->
             [class |-> "TestAmazonBasic", test |-> 0]
      [] argument = <<"-", "-", "a", "d", "v", "a", "n", "c", "e", "d">> ->
             [class |-> "TestAmazonAdvanced", test |-> 0]
      [] argument \in {<<"-", "-", "b", "o", "t", "h">>, <<"-", "-", "a", "l", "l">>} ->
             [class |-> "file", test |-> 0]

\* C17: with an unrecognized first argument the runner starts no test run and
\* never shows the menu, and it ends with exit status 1
C17_UnknownArgument ==
    (argv # Nil /\ Val(argv) \in UnrecognizedArguments) =>
        /\ runs = <<>>
        /\ menus_shown = 0
        /\ cli_pc \in {"start", "exited"}
        /\ cli_pc = "exited" => exit_status = Some(1)

\* C17 witness: the environment check passed and the runner has ended on the
\* argument --fast
C17_Witness ==
    /\ cli_pc = "exited"
    /\ env_result = "ok"
    /\ argv = Some(<<"-", "-", "f", "a", "s", "t">>)
    /\ exit_status = Some(1)

\* C18: when the environment check fails (Python too old, a package that
\* cannot be imported, a source file missing) the runner ends with exit
\* status 1, no test run started and the menu never shown, whatever the
\* argument
C18_PreflightFailure ==
    env_result \in {"python_too_old", "package_missing", "file_missing"} =>
        /\ cli_pc = "exited"
        /\ exit_status = Some(1)
        /\ runs = <<>>
        /\ menus_shown = 0

\* C18 witness: the check failed on a missing source file with --basic given,
\* and on a missing package with no argument
C18_Witness ==
    /\ cli_pc = "exited"
    /\ \/ env_result = "file_missing" /\ argv = Some(FlagBasic)
       \/ env_result = "package_missing" /\ argv = Nil
    /\ files # {}

\* C19: when the environment check passes and the first argument is --basic,
\* --advanced, --both or --all, the runner starts exactly one run, of the
\* suite the argument stands for, never shows the menu, and ends with the
\* exit code that run returned
C19_NonInteractiveRun ==
    (cli_pc = "exited" /\ env_result = "ok" /\ argv # Nil
        /\ Val(argv) \notin UnrecognizedArguments) =>
        /\ runs = <<ExpectedSuite(Val(argv))>>
        /\ menus_shown = 0
        /\ goodbye = FALSE
        /\ returncode # Nil => exit_status = returncode

\* C19 witness: --all ran the whole file and the runner ended with the failing
\* exit code of that run
C19_Witness ==
    /\ cli_pc = "exited"
    /\ env_result = "ok"
    /\ argv = Some(FlagAll)
    /\ runs = <<[class |-> "file", test |-> 0]>>
    /\ returncode = Some(1)
    /\ exit_status = Some(1)

\* C20: the interactive loop ends only with the goodbye message and exit
\* status 0, and a keyboard interrupt arriving anywhere in the loop, the menu
\* prompt included, ends it that way
C20_LoopExits ==
    /\ (menus_shown > 0 /\ cli_pc = "exited") =>
           (goodbye /\ exit_status = Some(0))
    /\ interrupted # "none" =>
           (cli_pc = "exited" /\ goodbye /\ exit_status = Some(0))

-----------------------------------------------------------------------------
(* Claims about the final assertion of the combined workflow test *)

\* C30: whenever the combined workflow test reaches its final assertion, the
\* basic-search, advanced-extraction and interaction flags are all true, so
\* at least 3 of the 4 flags are and the assertion never fails
C30_FinalAssertionHolds ==
    /\ wf_pc \in {"phase4", "passed", "failed4"} =>
           /\ basic_success
           /\ advanced_success
           /\ interaction_success
           /\ total_phases_passed >= MinPhases
    /\ wf_pc # "failed4"

\* C30 witness: the test passed its final assertion with the price flag
\* false, three flags out of four
C30_Witness ==
    /\ wf_pc = "passed"
    /\ ~price_data_success
    /\ total_phases_passed = 3

-----------------------------------------------------------------------------
(* Claims comparing the two price validators *)

\* C29: for the same product list and expected price, when the original
\* validator returns, the enhanced one returns too, with a valid_count that
\* is not smaller, and reports passed whenever the original does
C29_EnhancedAtLeastAsLenient ==
    (validation_result # Nil /\ original_result # Nil
        /\ Val(original_result).raises = None) =>
        /\ Val(validation_result).raises = None
        /\ products_data # <<>> =>
               /\ Val(validation_result).valid_count >= Val(original_result).valid_count
               /\ Val(original_result).passed => Val(validation_result).passed

\* C29 witness: both validators passed a list of three priced products, one
\* of them at exactly 1.25 times the expected price
C29_Witness ==
    /\ validation_result # Nil
    /\ original_result # Nil
    /\ Len(products_data) = 3
    /\ expected_max_price = 500
    /\ \E k \in 1..3 : products_data[k].price = Some(625)
    /\ Val(original_result).raises = None
    /\ Val(original_result).passed
    /\ Val(original_result).valid_count = 3
    /\ Val(validation_result).passed

-----------------------------------------------------------------------------
(* Claims about the failures the element finder lets through *)

\* C26: advanced_element_finder never raises to its caller: a failure of any
\* kind on one selector leads to the next selector, and None is returned only
\* when every selector of the list has been tried
C26_FailuresSwallowed ==
    /\ f_pc # "raised"
    /\ (f_pc = "returned" /\ f_result = Nil) => Len(f_waits) = Len(page)

-----------------------------------------------------------------------------
(* smart_product_finder and web_scraping_product_fallback                   *)
(* (utils/test_helpers.py:228-322).  The element k of selector pattern i is *)
(* <<i, k>>; the elements the fallback locates are <<0, k>>.                *)

\* selector patterns of product_selectors explored
MaxPatterns == 2

\* "len(found_products) >= 3" (lines 256, 294) and found[:10] (line 295)
MinMatches == 3
ScrapeCap == 10

\* the max_products of the callers at test_amazon_complete.py:159, 3085, 235
RequestedMaximums == {5, 10, 15}

\* numbers of matches of one pattern; 0 is the wait that times out (line 260)
MatchCounts == {0, 1, 2, 3, 6, 11}

\* numbers of <div> elements one BeautifulSoup strategy finds (line 293)
ScrapeCounts == {0, 2, 11}

\* found_products[:max_products] of line 257, for pattern i with n matches
FirstMatches(i, n, maximum) ==
    [k \in 1..(IF n < maximum THEN n ELSE maximum) |-> <<i, k>>]

\* web_scraping_product_fallback, lines 274-322: found is the number of
\* <div> elements each of the four strategies finds, dropped the containers
\* whose live element is not found (line 313), fails an exception of another
\* kind anywhere in it (caught at line 319)
web_scraping_product_fallback(found, dropped, fails) ==
    LET accepted == {j \in 1..4 : found[j] >= MinMatches}
        first == CHOOSE j \in accepted : \A h \in accepted : j <= h
        product_containers ==
            IF accepted = {} THEN 0
            ELSE IF found[first] < ScrapeCap THEN found[first] ELSE ScrapeCap
    IN  IF fails \/ product_containers = 0 THEN <<>>
        ELSE SelectSeq([k \in 1..product_containers |-> <<0, k>>],
                       LAMBDA e : e[2] \notin dropped)

\* one turn of the loop of lines 253-261 on the next pattern, n its number of
\* matches; with at least three the truncated list is kept, and returned at
\* line 271 as it is not empty
ProductFinderTry(n) ==
    /\ sp_pc = "loop"
    /\ Len(sp_counts) < MaxPatterns
    /\ sp_counts' = Append(sp_counts, n)
    /\ IF n >= MinMatches
       THEN /\ sp_result' = FirstMatches(Len(sp_counts) + 1, n, max_products)
            /\ sp_pc' = "returned"
       ELSE UNCHANGED <<sp_result, sp_pc>>
    /\ UNCHANGED max_products
    /\ UNCHANGED othersProduct

\* the wait of line 255 raises something else than TimeoutException
ProductFinderRaises ==
    /\ sp_pc = "loop"
    /\ Len(sp_counts) < MaxPatterns
    /\ sp_pc' = "raised"
    /\ UNCHANGED <<max_products, sp_counts, sp_result>>
    /\ UNCHANGED othersProduct

\* lines 263-271: no pattern gave three matches, the fallback's list is
\* returned
ProductFinderFallback(found, dropped, fails) ==
    /\ sp_pc = "loop"
    /\ Len(sp_counts) = MaxPatterns
    /\ sp_result' = web_scraping_product_fallback(found, dropped, fails)
    /\ sp_pc' = "returned"
    /\ UNCHANGED <<max_products, sp_counts>>
    /\ UNCHANGED othersProduct

InitProducts ==
    /\ InitOthersProduct
    /\ sp_pc = "loop"
    /\ max_products \in RequestedMaximums
    /\ sp_counts = <<>>
    /\ sp_result = <<>>

NextProducts ==
    \/ \E n \in MatchCounts : ProductFinderTry(n)
    \/ ProductFinderRaises
    \/ \E found \in [1..4 -> ScrapeCounts], dropped \in {{}, {1}, 1..ScrapeCap},
          fails \in BOOLEAN : ProductFinderFallback(found, dropped, fails)

SpecProducts == InitProducts /\ [][NextProducts]_vars

\* the patterns tried that gave at least three matches
AcceptedPatterns == {i \in 1..Len(sp_counts) : sp_counts[i] >= MinMatches}

\* C24: a returned list has at most max_products elements, whichever path
\* gave it, and on the primary path it is the first max_products matches of
\* the first pattern with at least three matches
C24_Truncated ==
    sp_pc = "returned" =>
        /\ Len(sp_result) <= max_products
        /\ AcceptedPatterns # {} =>
               /\ AcceptedPatterns = {Len(sp_counts)}
               /\ sp_result = FirstMatches(Len(sp_counts), sp_counts[Len(sp_counts)],
                                           max_products)

-----------------------------------------------------------------------------
(* create_visible_chrome_driver step by step (browser_config.py:58-220) and *)
(* clear_webdriver_cache (browser_config.py:251-276)                        *)

\* the cache_paths of lines 255-259
CachePaths == {"home", "USERPROFILE", "LOCALAPPDATA"}

\* clear_webdriver_cache: the directories left, undeletable being those whose
\* shutil.rmtree raises (line 267, passed over)
clear_webdriver_cache(cache, undeletable) == cache \cap undeletable

\* ChromeDriverManager().install() writes the driver under ~/.wdm
AfterInstall(cache, installed) == IF installed THEN cache \cup {"home"} ELSE cache

\* an attempt that fails ends the call
RungAfterGivingUp(rung, o) == IF o = "ok" THEN "returned" ELSE "raised"

\* where the call goes after the attempt at rung has ended with outcome o:
\* the return of lines 172, 190, 209; the except clauses of lines 174, 192;
\* the raise of line 220
RungAfter(rung, o) ==
    IF o = "ok" THEN "returned"
    ELSE IF rung = "full" THEN "minimal"
    ELSE IF rung = "minimal" THEN "final"
    ELSE "raised"

\* one launch attempt, as the log keeps it
LaunchAttempt(options, cleared, o) ==
    [options |-> options, cleared |-> cleared, outcome |-> o]

\* lines 62-172: the cache is cleared, the driver is installed and the
\* browser launched with the full options
LadderFull(o, installed, undeletable) ==
    /\ cd_pc = "full"
    /\ o # "no_browser" => installed
    /\ cd_cache' = AfterInstall(clear_webdriver_cache(cd_cache, undeletable), installed)
    /\ cd_log' = Append(cd_log, LaunchAttempt("full", TRUE, o))
    /\ cd_driver' = IF o = "ok" THEN Some(Len(cd_log) + 1) ELSE cd_driver
    /\ cd_pc' = RungAfter("full", o)
    /\ UNCHANGED othersLadder

\* lines 174-190: the second attempt, with the minimal options
LadderMinimal(o, installed) ==
    /\ cd_pc = "minimal"
    /\ o # "no_browser" => installed
    /\ cd_cache' = AfterInstall(cd_cache, installed)
    /\ cd_log' = Append(cd_log, LaunchAttempt("minimal", FALSE, o))
    /\ cd_driver' = IF o = "ok" THEN Some(Len(cd_log) + 1) ELSE cd_driver
    /\ cd_pc' = RungAfter("minimal", o)
    /\ UNCHANGED othersLadder

\* lines 192-220: the cache is cleared again and the minimal options are
\* tried once more; a failure raises the final exception
LadderFinal(o, installed, undeletable) ==
    /\ cd_pc = "final"
    /\ o # "no_browser" => installed
    /\ cd_cache' = AfterInstall(clear_webdriver_cache(cd_cache, undeletable), installed)
    /\ cd_log' = Append(cd_log, LaunchAttempt("minimal", TRUE, o))
    /\ cd_driver' = IF o = "ok" THEN Some(Len(cd_log) + 1) ELSE cd_driver
    /\ cd_pc' = RungAfter("final", o)
    /\ UNCHANGED othersLadder

InitLadder ==
    /\ InitOthersLadder
    /\ cd_pc = "full"
    /\ cd_log = <<>>
    /\ cd_driver = Nil
    /\ cd_cache \in SUBSET CachePaths

NextLadder ==
    \/ \E o \in AttemptOutcomes, installed \in BOOLEAN, undeletable \in SUBSET CachePaths :
           LadderFull(o, installed, undeletable)
    \/ \E o \in AttemptOutcomes, installed \in BOOLEAN : LadderMinimal(o, installed)
    \/ \E o \in AttemptOutcomes, installed \in BOOLEAN, undeletable \in SUBSET CachePaths :
           LadderFinal(o, installed, undeletable)

SpecLadder == InitLadder /\ [][NextLadder]_vars

\* C25: at most three launch attempts are made, in the order full options,
\* minimal options, minimal options; clear_webdriver_cache runs before the
\* first and the third and not before the second; every attempt but the last
\* made has failed; the driver of the first attempt that succeeds is
\* returned; and the final exception is raised exactly when three attempts
\* have failed
C25_RetryLadder ==
    /\ Len(cd_log) <= 3
    /\ \A k \in 1..Len(cd_log) :
           /\ cd_log[k].options = (IF k = 1 THEN "full" ELSE "minimal")
           /\ cd_log[k].cleared = (k \in {1, 3})
           /\ k < Len(cd_log) => cd_log[k].outcome # "ok"
    /\ cd_pc = "returned" <=>
           (cd_log # <<>> /\ cd_log[Len(cd_log)].outcome = "ok")
    /\ cd_pc = "returned" => cd_driver = Some(Len(cd_log))
    /\ cd_pc = "raised" <=>
           (Len(cd_log) = 3 /\ \A k \in 1..3 : cd_log[k].outcome # "ok")
    /\ cd_pc \notin {"returned", "raised"} =>
           (\A k \in 1..Len(cd_log) : cd_log[k].outcome # "ok") /\ Len(cd_log) < 3

\* C25 witness: the third attempt, after two failures, returned its driver
C25_Witness ==
    /\ cd_pc = "returned"
    /\ Len(cd_log) = 3
    /\ cd_driver = Some(3)
    /\ cd_log[1].outcome = "browser_then_error"
    /\ cd_log[2].outcome = "no_browser"

-----------------------------------------------------------------------------
(* The timing of pytest_runtest_makereport (conftest.py:38-78).  pytest runs *)
(* a phase of the test to its end, then calls the hook with the finished     *)
(* call; the hook wrapper runs to its yield, the other implementations build *)
(* the report, and the wrapper resumes.                                      *)

\* the phase after a phase
NextPhase(when) ==
    CASE when = "setup" -> "call" [] when = "call" -> "teardown" [] OTHER -> "done"

\* "duration = end_time - start_time" of line 46
Duration(m) == m.end - m.start

\* wall-clock time passes, at any point of the run
TickTiming ==
    /\ tm_when \notin {"off", "done"}
    /\ tm_clock < MaxClock
    /\ tm_clock' = tm_clock + 1
    /\ UNCHANGED <<tm_when, tm_pc, call_start, call_stop, hook_start, tm_measured>>
    /\ UNCHANGED othersTiming

\* pytest starts the phase: fixtures for setup, the test body for call
PhaseStarts ==
    /\ tm_when \in {"setup", "call", "teardown"}
    /\ tm_pc = "idle"
    /\ tm_pc' = "running"
    /\ call_start' = IF tm_when = "call" THEN Some(tm_clock) ELSE call_start
    /\ UNCHANGED <<tm_when, tm_clock, call_stop, hook_start, tm_measured>>
    /\ UNCHANGED othersTiming

\* the phase has run to its end; pytest goes on to call the hook
PhaseEnds ==
    /\ tm_pc = "running"
    /\ tm_pc' = "hook"
    /\ call_stop' = IF tm_when = "call" THEN Some(tm_clock) ELSE call_stop
    /\ UNCHANGED <<tm_when, tm_clock, call_start, hook_start, tm_measured>>
    /\ UNCHANGED othersTiming

\* lines 40-41: start_time = time.time(), then the yield
HookBegins ==
    /\ tm_pc = "hook"
    /\ hook_start' = Some(tm_clock)
    /\ tm_pc' = "yielded"
    /\ UNCHANGED <<tm_when, tm_clock, call_start, call_stop, tm_measured>>
    /\ UNCHANGED othersTiming

\* lines 42-78: end_time = time.time(); for the call phase the duration is
\* taken and recorded
HookResumes ==
    /\ tm_pc = "yielded"
    /\ tm_measured' = IF tm_when = "call"
                      THEN Some([start |-> Val(hook_start), end |-> tm_clock])
                      ELSE tm_measured
    /\ hook_start' = Nil
    /\ tm_when' = NextPhase(tm_when)
    /\ tm_pc' = "idle"
    /\ UNCHANGED <<tm_clock, call_start, call_stop>>
    /\ UNCHANGED othersTiming

InitTiming ==
    /\ InitOthersTiming
    /\ tm_when = "setup"
    /\ tm_pc = "idle"
    /\ tm_clock = 0
    /\ call_start = Nil
    /\ call_stop = Nil
    /\ hook_start = Nil
    /\ tm_measured = Nil

NextTiming ==
    \/ TickTiming
    \/ PhaseStarts
    \/ PhaseEnds
    \/ HookBegins
    \/ HookResumes

SpecTiming == InitTiming /\ [][NextTiming]_vars

\* C27: the start reading of a recorded duration is taken before the test's
\* call phase begins and the end reading after it ends, so the duration is at
\* least the time the test body ran
C27_DurationSpansCall ==
    tm_measured # Nil =>
        /\ Val(tm_measured).start <= Val(call_start)
        /\ Val(tm_measured).end >= Val(call_stop)
        /\ Duration(Val(tm_measured)) >= Val(call_stop) - Val(call_start)

-----------------------------------------------------------------------------
(* robust_element_click (utils/test_helpers.py:121-146) *)

\* max_attempts=3 of line 121
DefaultMaxAttempts == 3

\* what the driver does in one attempt: scrollIntoView runs or raises;
\* element.click() clicks, raises ElementClickInterceptedException or raises
\* something else (stale element, not interactable); the JavaScript click
\* runs or raises
ScrollOutcomes == {"ok", "raises"}
ClickOutcomes == {"ok", "intercepted", "raises"}
ScriptOutcomes == {"ok", "raises"}

\* the loop body with a JavaScript click after every failed native click
AttemptScriptAlways(scroll, click, js) ==
    IF scroll = "raises" THEN [native |-> "none", js |-> "none", success |-> FALSE]
    ELSE IF click = "ok" THEN [native |-> "ok", js |-> "none", success |-> TRUE]
    ELSE [native |-> click, js |-> js, success |-> js = "ok"]

\* the loop body, lines 124-142: the calls made (native, js: "none" when the
\* call is not made, else how it ended) and whether True is returned
ClickAttempt(scroll, click, js) ==
    IF scroll = "raises"
    THEN [native |-> "none", js |-> "none", success |-> FALSE]
    ELSE IF click = "ok"
    THEN [native |-> "ok", js |-> "none", success |-> TRUE]
    ELSE IF click = "intercepted"
    THEN [native |-> "intercepted", js |-> js, success |-> js = "ok"]
    ELSE [native |-> "raises", js |-> "none", success |-> FALSE]

\* one turn of the for loop of line 123
RobustClickTry(scroll, click, js) ==
    /\ rc_pc = "loop"
    /\ Len(rc_log) < rc_max
    /\ LET a == ClickAttempt(scroll, click, js)
       IN  /\ rc_log' = Append(rc_log, a)
           /\ rc_pc' = IF a.success THEN "returned" ELSE "loop"
           /\ rc_ret' = IF a.success THEN "True" ELSE rc_ret
    /\ UNCHANGED rc_max
    /\ UNCHANGED othersClick

\* return False of line 146
RobustClickExhausted ==
    /\ rc_pc = "loop"
    /\ Len(rc_log) = rc_max
    /\ rc_pc' = "returned"
    /\ rc_ret' = "False"
    /\ UNCHANGED <<rc_max, rc_log>>
    /\ UNCHANGED othersClick

InitClick ==
    /\ InitOthersClick
    /\ rc_pc = "loop"
    /\ rc_max \in 0..DefaultMaxAttempts
    /\ rc_log = <<>>
    /\ rc_ret = None

NextClick ==
    \/ \E scroll \in ScrollOutcomes, click \in ClickOutcomes, js \in ScriptOutcomes :
           RobustClickTry(scroll, click, js)
    \/ RobustClickExhausted

SpecClick == InitClick /\ [][NextClick]_vars

\* an attempt of the log ended with a click that went through
Clicked(a) == a.native = "ok" \/ a.js = "ok"

\* C22: at most max_attempts native clicks are made; a JavaScript click is
\* made only in an attempt whose native click was intercepted; True is
\* returned at the first click that goes through, with no attempt after it;
\* False is returned exactly when max_attempts attempts have all failed; and
\* nothing is raised
C22_RobustClick ==
    /\ Cardinality({k \in 1..Len(rc_log) : rc_log[k].native # "none"}) <= rc_max
    /\ Len(rc_log) <= rc_max
    /\ \A k \in 1..Len(rc_log) :
           /\ rc_log[k].js # "none" => rc_log[k].native = "intercepted"
           /\ k < Len(rc_log) => ~Clicked(rc_log[k])
    /\ rc_ret \in {None, "True", "False"}
    /\ rc_pc = "returned" <=> rc_ret # None
    /\ rc_ret = "True" <=> (rc_log # <<>> /\ Clicked(rc_log[Len(rc_log)]))
    /\ rc_ret = "False" =>
           (Len(rc_log) = rc_max /\ \A k \in 1..Len(rc_log) : ~Clicked(rc_log[k]))
    /\ (rc_pc = "loop" /\ Len(rc_log) = rc_max) => rc_ret = None

\* C22 witness: with max_attempts 3 the third attempt returned True through
\* the JavaScript click, after an attempt whose native click raised
C22_Witness ==
    /\ rc_max = 3
    /\ Len(rc_log) = 3
    /\ rc_ret = "True"
    /\ rc_log[2].native = "raises"
    /\ rc_log[3].native = "intercepted"
    /\ rc_log[3].js = "ok"

-----------------------------------------------------------------------------
(* intelligent_popup_dismissal: the helper (utils/test_helpers.py:325-406)  *)
(* and the method of the advanced suite (test_amazon_complete.py:590-653),  *)
(* which have the same loops.                                               *)

\* entries of popup_selectors that find anything (the others are passed over)
MaxPopupSelectors == 2
\* max_attempts=5 of the helper (line 325) and range(3) of the suite method
\* (test_amazon_complete.py:612)
HelperMaxAttempts == 5
SuiteMaxAttempts == 3

\* the lists find_elements returns for one selector that are explored.  An
\* element is "hidden" (not displayed or not enabled), "stale" (is_displayed
\* raises, which leaves the selector), "click_ok" (displayed, and a click goes
\* through: robust_element_click returns True; click() or the JavaScript
\* click runs) or "click_fails" (displayed, and no click goes through)
PopupElementLists ==
    {<<>>, <<"hidden">>, <<"click_ok">>, <<"stale", "click_ok">>,
     <<"click_fails", "click_ok">>, <<"click_fails", "click_fails">>,
     <<"hidden", "click_ok", "click_ok">>}

\* the pages an attempt can meet: for each selector the elements it finds
PopupPages == UNION {[1..n -> PopupElementLists] : n \in 0..MaxPopupSelectors}

\* the loop over the elements of one selector from element k on (helper lines
\* 377-393): popups dismissed, clicks tried, found_popup
RECURSIVE ScanElements(_, _)
ScanElements(elements, k) ==
    IF k > Len(elements) THEN [dismissed |-> 0, clicks |-> 0]
    ELSE IF elements[k] = "hidden" THEN ScanElements(elements, k + 1)
    ELSE IF elements[k] = "stale" THEN [dismissed |-> 0, clicks |-> 0]
    ELSE IF elements[k] = "click_ok" THEN [dismissed |-> 1, clicks |-> 1]
    ELSE LET rest == ScanElements(elements, k + 1)
         IN  [dismissed |-> rest.dismissed, clicks |-> rest.clicks + 1]

\* the loop over the selectors without the break of lines 395-396
RECURSIVE ScanEverySelector(_, _)
ScanEverySelector(popups, i) ==
    IF i > Len(popups) THEN [dismissed |-> 0, clicks |-> 0]
    ELSE LET here == ScanElements(popups[i], 1)
             rest == ScanEverySelector(popups, i + 1)
         IN  [dismissed |-> here.dismissed + rest.dismissed,
              clicks |-> here.clicks + rest.clicks]

\* the loop over the selectors from selector i on (helper lines 370-399)
RECURSIVE ScanSelectors(_, _)
ScanSelectors(popups, i) ==
    IF i > Len(popups) THEN [dismissed |-> 0, clicks |-> 0]
    ELSE LET here == ScanElements(popups[i], 1)
         IN  IF here.dismissed > 0 THEN here
             ELSE LET rest == ScanSelectors(popups, i + 1)
                  IN  [dismissed |-> rest.dismissed,
                       clicks |-> here.clicks + rest.clicks]

\* one turn of the attempt loop (helper lines 367-404) on the page as it is
\* now: "if not found_popup: break" ends the call
PopupAttempt(popups) ==
    /\ pd_pc = "loop"
    /\ Len(pd_log) < pd_max
    /\ LET scan == ScanSelectors(popups, 1)
       IN  /\ pd_log' = Append(pd_log, scan)
           /\ dismissed_count' = dismissed_count + scan.dismissed
           /\ IF scan.dismissed = 0
              THEN /\ pd_pc' = "returned"
                   /\ pd_ret' = Some(dismissed_count)
              ELSE UNCHANGED <<pd_pc, pd_ret>>
    /\ UNCHANGED pd_max
    /\ UNCHANGED othersPopup

\* the attempts are used up: return dismissed_count (helper line 406)
PopupAttemptsExhausted ==
    /\ pd_pc = "loop"
    /\ Len(pd_log) = pd_max
    /\ pd_pc' = "returned"
    /\ pd_ret' = Some(dismissed_count)
    /\ UNCHANGED <<pd_max, pd_log, dismissed_count>>
    /\ UNCHANGED othersPopup

InitPopups ==
    /\ InitOthersPopup
    /\ pd_pc = "loop"
    /\ pd_max \in {HelperMaxAttempts, SuiteMaxAttempts}
    /\ pd_log = <<>>
    /\ dismissed_count = 0
    /\ pd_ret = Nil

NextPopups ==
    \/ \E popups \in PopupPages : PopupAttempt(popups)
    \/ PopupAttemptsExhausted

SpecPopups == InitPopups /\ [][NextPopups]_vars

\* the attempts made that dismissed a popup
DismissingAttempts == {k \in 1..Len(pd_log) : pd_log[k].dismissed > 0}

MobileDigits == 2

\* fake.email() (line 1809): addresses, none of which holds a key that submits
Emails == {<<"a", "@", "b">>, <<"q", "@", "z", ".", "i", "n">>}

RECURSIVE DigitStrings(_)
DigitStrings(n) ==
    IF n = 0 THEN {<<>>}
    ELSE {<<d>> \o t : d \in {"0", "7"}, t \in DigitStrings(n - 1)}

\* f"+91{fake.random_number(digits=10, fix_len=True)}" (line 1857)
IndianMobiles == {<<"+", "9", "1">> \o d : d \in DigitStrings(MobileDigits)}

\* what an input field holds when the page shows it: empty or prefilled
Prefills == {<<>>, <<"u">>}

\* outcomes of advanced_element_finder: an element, None, or an exception it
\* does not catch (StaleElementReferenceException and the like)
FinderOutcomes == {"found", "none", "raises"}

\* WebElement.clear(), shown with its mutation: a clear that leaves the text
clear_kept(value) == value

\* WebElement.clear() (lines 1810, 1826, 1858, 1873): the field is emptied
clear(value) == <<>>

\* WebElement.send_keys(char) (lines 1814, 1862): the character is appended
send_keys(value, char) == Append(value, char)

\* lines 1772-1778: navigation, its assertion, and the popup dismissal on the
\* home page, which clicks one control for every popup it dismisses
OtpNavigate ==
    /\ otp_pc = "navigate"
    /\ \E success \in BOOLEAN, popups \in 0..HelperMaxAttempts :
        IF success
        THEN /\ otp_clicks' = [i \in 1..popups |-> "popup"]
             /\ otp_pc' = "signin"
        ELSE /\ otp_pc' = "failed"
             /\ UNCHANGED otp_clicks
    /\ UNCHANGED <<otp_fields, otp_pending, login_tests, othersOtp>>

\* lines 1782-1793 and 1927-1930: the sign-in affordance is looked for and
\* clicked; without it, or without a click, the test goes on to phase 5
OtpSignin ==
    /\ otp_pc = "signin"
    /\ \E found \in FinderOutcomes, clicked \in BOOLEAN :
        CASE found = "raises" ->
                /\ otp_pc' = "raised"
                /\ UNCHANGED otp_clicks
          [] found = "none" ->
                /\ otp_pc' = "password"
                /\ UNCHANGED otp_clicks
          [] found = "found" ->
                /\ otp_clicks' = IF clicked THEN Append(otp_clicks, "signin")
                                 ELSE otp_clicks
                /\ otp_pc' = IF clicked THEN "email" ELSE "password"
    /\ UNCHANGED <<otp_fields, otp_pending, login_tests, othersOtp>>

\* lines 1797-1810 and 1925-1926: the e-mail field is looked for, a fake
\* address is generated and the field is cleared before the typing
OtpEmailFind ==
    /\ otp_pc = "email"
    /\ \E found \in FinderOutcomes, test_email \in Emails, cleared \in BOOLEAN :
        CASE found = "raises" ->
                /\ otp_pc' = "raised"
                /\ UNCHANGED <<otp_fields, otp_pending>>
          [] found = "none" ->
                /\ otp_pc' = "password"
                /\ UNCHANGED <<otp_fields, otp_pending>>
          [] found = "found" /\ ~cleared ->
                /\ otp_pc' = "raised"
                /\ UNCHANGED <<otp_fields, otp_pending>>
          [] found = "found" /\ cleared ->
                /\ otp_fields' = [otp_fields EXCEPT !.email = clear(@)]
                /\ otp_pending' = test_email
                /\ otp_pc' = "email_typing"
    /\ UNCHANGED <<otp_clicks, login_tests, othersOtp>>

\* the field the typing loop at otp_pc writes into
TypingField == IF otp_pc = "email_typing" THEN "email" ELSE "mobile"

\* lines 1813-1815 and 1861-1863: one character is sent to the field;
\* send_keys may raise, which ends the test with the text typed so far
OtpType ==
    /\ otp_pc \in {"email_typing", "mobile_typing"}
    /\ otp_pending # <<>>
    /\ \E sent \in BOOLEAN :
        IF sent
        THEN /\ otp_fields' = [otp_fields EXCEPT
                    ![TypingField] = send_keys(@, Head(otp_pending))]
             /\ otp_pending' = Tail(otp_pending)
             /\ UNCHANGED otp_pc
        ELSE /\ otp_pc' = "raised"
             /\ UNCHANGED <<otp_fields, otp_pending>>
    /\ UNCHANGED <<otp_clicks, login_tests, othersOtp>>

\* lines 1817-1826: the step is recorded and the e-mail field is cleared
OtpEmailDone ==
    /\ otp_pc = "email_typing"
    /\ otp_pending = <<>>
    /\ login_tests' = Append(login_tests, "email_input")
    /\ \E cleared \in BOOLEAN :
        IF cleared
        THEN /\ otp_fields' = [otp_fields EXCEPT !.email = clear(@)]
             /\ otp_pc' = "mobile_link"
        ELSE /\ otp_pc' = "raised"
             /\ UNCHANGED otp_fields
    /\ UNCHANGED <<otp_clicks, otp_pending, othersOtp>>

\* lines 1832-1842 and 1923-1924: the mobile-number link is looked for and
\* clicked
OtpMobileLink ==
    /\ otp_pc = "mobile_link"
    /\ \E found \in FinderOutcomes, clicked \in BOOLEAN :
        CASE found = "raises" ->
                /\ otp_pc' = "raised"
                /\ UNCHANGED otp_clicks
          [] found = "none" ->
                /\ otp_pc' = "password"
                /\ UNCHANGED otp_clicks
          [] found = "found" ->
                /\ otp_clicks' = IF clicked
                                 THEN Append(otp_clicks, "mobile_link")
                                 ELSE otp_clicks
                /\ otp_pc' = IF clicked THEN "mobile_input" ELSE "password"
    /\ UNCHANGED <<otp_fields, otp_pending, login_tests, othersOtp>>

\* lines 1845-1858 and 1921-1922: the mobile field is looked for, a fake
\* number is generated and the field is cleared before the typing
OtpMobileFind ==
    /\ otp_pc = "mobile_input"
    /\ \E found \in FinderOutcomes, indian_mobile \in IndianMobiles,
          cleared \in BOOLEAN :
        CASE found = "raises" ->
                /\ otp_pc' = "raised"
                /\ UNCHANGED <<otp_fields, otp_pending>>
          [] found = "none" ->
                /\ otp_pc' = "password"
                /\ UNCHANGED <<otp_fields, otp_pending>>
          [] found = "found" /\ ~cleared ->
                /\ otp_pc' = "raised"
                /\ UNCHANGED <<otp_fields, otp_pending>>
          [] found = "found" /\ cleared ->
                /\ otp_fields' = [otp_fields EXCEPT !.mobile = clear(@)]
                /\ otp_pending' = indian_mobile
                /\ otp_pc' = "mobile_typing"
    /\ UNCHANGED <<otp_clicks, login_tests, othersOtp>>

\* lines 1865-1873: the step is recorded and the mobile field is cleared
OtpMobileDone ==
    /\ otp_pc = "mobile_typing"
    /\ otp_pending = <<>>
    /\ login_tests' = Append(login_tests, "mobile_input")
    /\ \E cleared \in BOOLEAN :
        IF cleared
        THEN /\ otp_fields' = [otp_fields EXCEPT !.mobile = clear(@)]
             /\ otp_pc' = "continue"
        ELSE /\ otp_pc' = "raised"
             /\ UNCHANGED otp_fields
    /\ UNCHANGED <<otp_clicks, otp_pending, othersOtp>>

\* lines 1879-1920: the continue control is looked for; when found the
\* detection is recorded and the page source is scanned for OTP indicators.
\* Nothing is clicked here.
OtpContinue ==
    /\ otp_pc = "continue"
    /\ \E found \in FinderOutcomes, otp_detected \in BOOLEAN :
        CASE found = "raises" ->
                /\ otp_pc' = "raised"
                /\ UNCHANGED login_tests
          [] found = "none" ->
                /\ otp_pc' = "password"
                /\ UNCHANGED login_tests
          [] found = "found" ->
                /\ login_tests' =
                      IF otp_detected
                      THEN login_tests \o <<"otp_flow_detected",
                                            "otp_field_patterns_detected">>
                      ELSE Append(login_tests, "otp_flow_detected")
                /\ otp_pc' = "password"
    /\ UNCHANGED <<otp_clicks, otp_fields, otp_pending, othersOtp>>

\* lines 1933-1949: the password field is looked for, never typed into
OtpPassword ==
    /\ otp_pc = "password"
    /\ \E found \in FinderOutcomes :
        CASE found = "raises" ->
                /\ otp_pc' = "raised"
                /\ UNCHANGED login_tests
          [] found = "none" ->
                /\ otp_pc' = "assert"
                /\ UNCHANGED login_tests
          [] found = "found" ->
                /\ login_tests' = Append(login_tests, "password_field_detected")
                /\ otp_pc' = "assert"
    /\ UNCHANGED <<otp_clicks, otp_fields, otp_pending, othersOtp>>

\* lines 1952-1955: every recorded step has success True, so successful_steps
\* is the length of login_tests
OtpAssert ==
    /\ otp_pc = "assert"
    /\ otp_pc' = IF Len(login_tests) > 0 THEN "passed" ELSE "failed"
    /\ UNCHANGED <<otp_clicks, otp_fields, otp_pending, login_tests, othersOtp>>

InitOtp ==
    /\ InitOthersOtp
    /\ otp_pc = "navigate"
    /\ otp_clicks = <<>>
    /\ otp_fields \in [email : Prefills, mobile : Prefills]
    /\ otp_pending = <<>>
    /\ login_tests = <<>>

NextOtp ==
    \/ OtpNavigate
    \/ OtpSignin
    \/ OtpEmailFind
    \/ OtpType
    \/ OtpEmailDone
    \/ OtpMobileLink
    \/ OtpMobileFind
    \/ OtpMobileDone
    \/ OtpContinue
    \/ OtpPassword
    \/ OtpAssert

SpecOtp == InitOtp /\ [][NextOtp]_vars

\* the clicks of the login flow: the clicks after the popup dismissal
LoginClicks == SelectSeq(otp_clicks, LAMBDA c : c # "popup")

\* the popup controls are clicked before anything else
PopupsFirst ==
    \A i, j \in DOMAIN otp_clicks :
        (i < j /\ otp_clicks[j] = "popup") => otp_clicks[i] = "popup"

\* every field typed into and left behind by the flow is empty
TypedFieldsCleared ==
    otp_pc # "raised" =>
        /\ "email_input" \in Range(login_tests) => otp_fields.email = <<>>
        /\ "mobile_input" \in Range(login_tests) => otp_fields.mobile = <<>>
        /\ otp_pc \notin {"email_typing", "mobile_typing"} => otp_pending = <<>>

TreeDirectories == {"reports", "screenshots", "logs"}

\* line 147: for directory in ["reports", "screenshots"]
CleanedDirectories == <<"reports", "screenshots">>

\* names an entry directly inside a directory can have
EntryNames == {"a", "b"}

\* what a name inside a directory is: nothing, a regular file, a symbolic
\* link to a regular file outside, or a subdirectory with its own files
Entries ==
    [kind : {"absent", "file", "link"}, inside : {{}}]
        \cup [kind : {"dir"}, inside : SUBSET {"x"}]

NoEntry == [kind |-> "absent", inside |-> {}]

\* the directory trees explored: a directory that does not exist has no
\* entries, screenshots/ and logs/ have at most one
DirectoryTrees ==
    {t \in [TreeDirectories -> [EntryNames -> Entries]] :
        /\ t["screenshots"]["b"] = NoEntry
        /\ t["logs"]["b"] = NoEntry
        /\ t["logs"]["a"].kind \in {"absent", "file"}}

\* os.path.isfile, shown with its mutation: every entry passes for a file
isfile_any(entry) == entry.kind # "absent"

\* os.path.isfile (line 151): a regular file, symbolic links followed
isfile(entry) == entry.kind \in {"file", "link"}

\* the orders os.listdir (line 149) can return the names of a directory in
Listings(names) ==
    {s \in UNION {[1..n -> names] : n \in 0..Cardinality(names)} :
        /\ Range(s) = names
        /\ Len(s) = Cardinality(names)}

\* lines 147-149: the next directory; one that does not exist is passed
\* over, an existing one is listed
CleanDirectory ==
    /\ cl_pc = "loop"
    /\ cl_dir <= Len(CleanedDirectories)
    /\ LET directory == CleanedDirectories[cl_dir]
           names == {n \in EntryNames : cl_tree[directory][n].kind # "absent"}
       IN  IF directory \in cl_dirs
           THEN /\ cl_todo' \in Listings(names)
                /\ cl_pc' = "files"
                /\ UNCHANGED cl_dir
           ELSE /\ cl_dir' = cl_dir + 1
                /\ UNCHANGED <<cl_pc, cl_todo>>
    /\ UNCHANGED <<cl_dirs, cl_tree, cl_other, cl_before, cleaned, cl_printed,
                   othersClean>>

\* lines 149-153: one entry of the listing; os.remove may raise, which ends
\* the function
CleanFile ==
    /\ cl_pc = "files"
    /\ cl_todo # <<>>
    /\ LET directory == CleanedDirectories[cl_dir]
           file == Head(cl_todo)
       IN  IF isfile(cl_tree[directory][file])
           THEN \E removed \in BOOLEAN :
                   IF removed
                   THEN /\ cl_tree' = [cl_tree EXCEPT ![directory][file] = NoEntry]
                        /\ cleaned' = cleaned + 1
                        /\ cl_todo' = Tail(cl_todo)
                        /\ UNCHANGED cl_pc
                   ELSE /\ cl_pc' = "raised"
                        /\ UNCHANGED <<cl_tree, cleaned, cl_todo>>
           ELSE /\ cl_todo' = Tail(cl_todo)
                /\ UNCHANGED <<cl_pc, cl_tree, cleaned>>
    /\ UNCHANGED <<cl_dirs, cl_other, cl_before, cl_dir, cl_printed, othersClean>>

\* line 149: the listing is exhausted
CleanListingDone ==
    /\ cl_pc = "files"
    /\ cl_todo = <<>>
    /\ cl_pc' = "loop"
    /\ cl_dir' = cl_dir + 1
    /\ UNCHANGED <<cl_dirs, cl_tree, cl_other, cl_before, cl_todo, cleaned,
                   cl_printed, othersClean>>

\* line 155: print(f"[SUCCESS] Cleaned {cleaned} files")
CleanPrint ==
    /\ cl_pc = "loop"
    /\ cl_dir > Len(CleanedDirectories)
    /\ cl_printed' = Some(cleaned)
    /\ cl_pc' = "returned"
    /\ UNCHANGED <<cl_dirs, cl_tree, cl_other, cl_before, cl_dir, cl_todo,
                   cleaned, othersClean>>

\* lines 144-146: the call, on any directory tree
InitClean ==
    /\ InitOthersClean
    /\ cl_pc = "loop"
    /\ cl_dirs \in SUBSET TreeDirectories
    /\ cl_tree \in DirectoryTrees
    /\ \A d \in TreeDirectories \ cl_dirs : \A n \in EntryNames :
          cl_tree[d][n] = NoEntry
    /\ cl_other \in {{"README.md"}, {"README.md", "target.html"}}
    /\ \A d \in TreeDirectories, n \in EntryNames :
          cl_tree[d][n].kind = "link" => "target.html" \in cl_other
    /\ cl_before = [dirs |-> cl_dirs, tree |-> cl_tree, other |-> cl_other]
    /\ cl_dir = 1
    /\ cl_todo = <<>>
    /\ cleaned = 0
    /\ cl_printed = Nil

NextClean ==
    \/ CleanDirectory
    \/ CleanFile
    \/ CleanListingDone
    \/ CleanPrint

SpecClean == InitClean /\ [][NextClean]_vars

\* an entry the claim calls a file: a regular file, or a link to one
RegularFile(entry) == entry.kind \in {"file", "link"}

\* the entries of reports/ and screenshots/ that are files at the call
FilesBefore ==
    {e \in Range(CleanedDirectories) \X EntryNames :
        RegularFile(cl_before.tree[e[1]][e[2]])}

\* the entries of reports/ and screenshots/ gone since the call
FilesRemoved ==
    {e \in Range(CleanedDirectories) \X EntryNames :
        /\ cl_before.tree[e[1]][e[2]] # NoEntry
        /\ cl_tree[e[1]][e[2]] = NoEntry}

\* C28: after clean_artifacts has returned no file remains directly inside
\* reports/ or screenshots/, and the printed count is the number of files
\* removed; at every moment of the call, the subdirectories of the two
\* directories with what they hold, logs/, the set of directories and every
\* path outside them are as they were at the call, and only an os.remove inside
\* an existing directory makes the call raise (a missing directory is passed
\* over).
C28_CleanFrame ==
    /\ cl_dirs = cl_before.dirs
    /\ cl_other = cl_before.other
    /\ cl_tree["logs"] = cl_before.tree["logs"]
    /\ \A d \in Range(CleanedDirectories), n \in EntryNames :
          ~RegularFile(cl_before.tree[d][n]) => cl_tree[d][n] = cl_before.tree[d][n]
    /\ cl_pc = "raised" => CleanedDirectories[cl_dir] \in cl_dirs
    /\ cl_pc = "returned" =>
          /\ \A d \in Range(CleanedDirectories), n \in EntryNames :
                ~RegularFile(cl_tree[d][n])
          /\ FilesRemoved = FilesBefore
          /\ cl_printed = Some(Cardinality(FilesRemoved))

\* C28 witness: the call returned after removing two files, with reports/
\* holding a subdirectory with a file in it and logs/ holding a file
C28_Witness ==
    /\ cl_pc = "returned"
    /\ cl_printed = Some(2)
    /\ cl_tree["reports"]["b"] = [kind |-> "dir", inside |-> {"x"}]
    /\ cl_tree["logs"]["a"].kind = "file"

====
